---- MODULE Spec2Model ----
(***************************************************************************)
(* Patient matching pipeline: candidate filtering and deduplication        *)
(* (src/core/filtering.py), score computation (src/core/scoring.py),       *)
(* distance resolution (src/core/distance.py) and the request handlers     *)
(* with ranking normalisation (src/api/handlers.py).                       *)
(*                                                                         *)
(* Strings that the code inspects character by character (indications,     *)
(* exclusion patterns) are sequences of one-character strings.  Distances  *)
(* are whole kilometres.  Percentages are hundredths of a percent.         *)
(***************************************************************************)
EXTENDS Integers, Sequences, FiniteSets, TLC

VARIABLES
    scored_df,        \* data_loader._scored_df: the patient rows (a table whose
                      \* row order no operation below depends on: a set)
    filters,          \* the filter dict handed to filter_patients_async
    top_k,            \* its top_k argument
    filtered,         \* what filter_patients_async returned (or raised)
    geo,              \* the postal-code reference data behind pgeocode
    patient_zip,      \* arguments of the distance call in progress
    site_zip_codes,
    distance,         \* what the distance call returned
    merged_df,        \* data_loader._merged_df: the activity rows, in order
    patient,          \* the patient row handed to the scoring call
    score_details,    \* what compute_score_with_breakdown_async returned
    request,          \* the HTTP request: its endpoint and its JSON body
    response,         \* the HTTP response to it
    loaded,           \* whether data_loader holds the two datasets
    faults,           \* the patients whose scoring raises an unexpected exception
    all_matching_patients,  \* query_patients: the list the filtering returned
    candidates_to_score,    \* query_patients: the promoted candidates, scored
    _cached_merged_df,      \* scoring.py: the module-level copy of merged_df
    detect_cache,           \* the codes held by detect_country_and_coords' lru_cache
    _geo_distance_cache,    \* distance.py: the countries with a cached GeoDistance
    tasks,            \* compute_score_batch: the scoring tasks handed to gather
    semaphore,        \* compute_score_batch: the permits left in the Semaphore
    max_concurrent,   \* compute_score_batch: its max_concurrent argument
    batch_result,     \* compute_score_batch: the list it returned
    lookups,          \* calculate_closest_distance: the lookups handed to gather
    resolutions,      \* fuzzy_match_filter: the calls made, term and result
    callers,          \* load_datasets: the calls made, each with its position
    _loading_lock,    \* DataLoader._loading_lock: 0, or the caller that holds it
    load_runs,        \* the number of executions of _load_data started
    stored            \* the execution whose pair the loader holds, 0 for None

filterVars == <<scored_df, filters, top_k, filtered>>
distVars == <<geo, patient_zip, site_zip_codes, distance>>
scoreVars == <<merged_df, patient, score_details>>
queryVars == <<request, response, loaded, faults, all_matching_patients,
               candidates_to_score>>
cacheVars == <<_cached_merged_df, detect_cache, _geo_distance_cache>>
batchVars == <<tasks, semaphore, max_concurrent, batch_result>>
loadVars == <<callers, _loading_lock, load_runs, stored>>
vars == <<scored_df, filters, top_k, filtered,
          geo, patient_zip, site_zip_codes, distance,
          merged_df, patient, score_details, request, response,
          loaded, faults, all_matching_patients, candidates_to_score,
          _cached_merged_df, detect_cache, _geo_distance_cache,
          tasks, semaphore, max_concurrent, batch_result, lookups, resolutions,
          callers, _loading_lock, load_runs, stored>>

\* ------------------------------------------------------------------ bounds
MaxRows == 2          \* rows of the patient table in the filtering runs
MaxSites == 2         \* site codes in one request
MaxActivities == 2    \* activity rows in the scoring runs

\* An optional integer (top_k: None or an int) is <<>> or <<n>>
None == <<>>
Some(n) == <<n>>
\* a polars null in a string column
Null == <<"null">>

\* ----------------------------------------------------------------- strings
\* s contains t as a contiguous substring
Contains(s, t) ==
    \E i \in 0..(Len(s) - Len(t)) : SubSeq(s, i + 1, i + Len(t)) = t

IsParen(c) == c \in {"(", ")"}

\* nesting depth after reading p[1..n]; -1 once a ")" closes nothing
RECURSIVE ParenDepth(_, _)
ParenDepth(p, n) ==
    IF n = 0 THEN 0
    ELSE LET d == ParenDepth(p, n - 1)
         IN  IF d < 0 THEN d
             ELSE IF p[n] = "(" THEN d + 1
             ELSE IF p[n] = ")" THEN d - 1
             ELSE d

\* the regex engine compiles the pattern: groups must be balanced
RegexValid(p) == ParenDepth(p, Len(p)) = 0

\* str.contains(pat, literal=False): pat is a regular expression.  Over
\* letters and grouping parentheses, a valid pattern matches the text it
\* spells with the parentheses taken out.
RegexLiteral(p) == SelectSeq(p, LAMBDA c : ~IsParen(c))

StrContainsLiteral(s, p) == Contains(s, p)

StrContains(s, p) == Contains(s, RegexLiteral(p))

\* ------------------------------------------------------------ sequences
Range(s) == {s[i] : i \in DOMAIN s}

Min2(a, b) == IF a <= b THEN a ELSE b
Max2(a, b) == IF a >= b THEN a ELSE b

\* polars DataFrame.head(n): the first n rows; all but the last -n for n < 0
HeadRows(s, n) ==
    IF n >= 0 THEN SubSeq(s, 1, Min2(n, Len(s)))
    ELSE SubSeq(s, 1, Max2(Len(s) + n, 0))

\* ------------------------------------------------------------ filtering
\* df.filter(pl.col("sex") == sex)
_apply_sex_filter(df, sex) ==
    {r \in df : r.sex = sex}

\* df.filter(pl.col("age") >= age_min)
_apply_age_filter(df, age_min) ==
    {r \in df : r.age >= age_min}

\* OR of equality clauses; no clause (empty list) leaves df as it is
_apply_indication_filter(df, indications) ==
    IF indications = <<>> THEN df
    ELSE {r \in df :
            /\ r.indication # Null
            /\ \E i \in DOMAIN indications : r.indication = indications[i]}

\* whether the exclusion filter raises: a pattern the regex engine rejects
ExclusionRaises(exclusions) ==
    \E i \in DOMAIN exclusions : ~RegexValid(exclusions[i])

\* df.filter(~cond), cond the OR of str.contains(syn, literal=False); a null
\* indication makes cond null, and filter drops the row
_apply_exclusion_filter(df, exclusions) ==
    IF exclusions = <<>> THEN df
    ELSE {r \in df :
            /\ r.indication # Null
            /\ ~\E i \in DOMAIN exclusions :
                   StrContains(r.indication, exclusions[i])}

\* lines 20-34: the filters present in the dict, applied one after another
ApplyFilters(df, f) ==
    LET a == IF "sex" \in DOMAIN f THEN _apply_sex_filter(df, f["sex"]) ELSE df
        b == IF "age_min" \in DOMAIN f THEN _apply_age_filter(a, f["age_min"]) ELSE a
        c == IF "indication" \in DOMAIN f
             THEN _apply_indication_filter(b, f["indication"]) ELSE b
    IN  IF "exclude" \in DOMAIN f /\ f["exclude"] # <<>>
        THEN _apply_exclusion_filter(c, f["exclude"]) ELSE c

FiltersRaise(f) ==
    "exclude" \in DOMAIN f /\ f["exclude"] # <<>> /\ ExclusionRaises(f["exclude"])

\* the same with the sort ascending
FirstOfGroupAscending(rows, pid) ==
    {r \in rows : /\ r.PATIENT_ID = pid
                  /\ \A q \in rows : q.PATIENT_ID = pid
                                        => q.business_score >= r.business_score}

\* rows of one patient that sort("business_score", descending) may put first
FirstOfGroup(rows, pid) ==
    {r \in rows : /\ r.PATIENT_ID = pid
                  /\ \A q \in rows : q.PATIENT_ID = pid
                                        => q.business_score <= r.business_score}

\* a table left with every row of every patient
KeepEveryRow(rows, pids) == {rows}

\* lines 37-41: sort descending, group_by("PATIENT_ID").first().  The sort
\* does not fix the order of equal scores, so each group keeps any one of
\* its best rows: the set of tables the call can produce.
RECURSIVE Deduplicate(_, _)
Deduplicate(rows, pids) ==
    IF pids = {} THEN {{}}
    ELSE LET pid == CHOOSE x \in pids : TRUE
         IN  UNION {{{r} \cup rest : rest \in Deduplicate(rows, pids \ {pid})}
                       : r \in FirstOfGroup(rows, pid)}

MinScore(rows) ==
    CHOOSE m \in {r.business_score : r \in rows} :
        \A r \in rows : m <= r.business_score

MaxScore(rows) ==
    CHOOSE m \in {r.business_score : r \in rows} :
        \A r \in rows : m >= r.business_score

\* lines 46-55: the added column, as the fraction <<numerator, denominator>>
WithNormalized(r, lo, hi) ==
    [PATIENT_ID |-> r.PATIENT_ID, sex |-> r.sex, age |-> r.age,
     indication |-> r.indication, business_score |-> r.business_score,
     recency_points |-> r.recency_points, recency_reason |-> r.recency_reason,
     latest_milestone |-> r.latest_milestone,
     query_normalized_score |->
        IF hi > lo THEN <<r.business_score - lo, hi - lo>> ELSE <<1, 1>>]

Normalize(rows) ==
    IF rows = {} THEN {}
    ELSE {WithNormalized(r, MinScore(rows), MaxScore(rows)) : r \in rows}

\* line 59: every order of the rows that descends by business_score
RECURSIVE SortDescending(_)
SortDescending(rows) ==
    IF rows = {} THEN {<<>>}
    ELSE UNION {{<<r>> \o t : t \in SortDescending(rows \ {r})}
                   : r \in {x \in rows : x.business_score = MaxScore(rows)}}

NotCalled == [state |-> "idle", rows |-> <<>>]
Raised == [state |-> "raised", rows |-> <<>>]
Returned(rows) == [state |-> "returned", rows |-> rows]

\* filter_patients_async(filters, top_k): the set of results a call can have
filter_patients_async(df, f, k) ==
    IF FiltersRaise(f) THEN {Raised}
    ELSE LET kept == ApplyFilters(df, f)
             pids == {r.PATIENT_ID : r \in kept}
         IN  {Returned(IF k = None THEN s ELSE HeadRows(s, k[1])) :
                 s \in UNION {SortDescending(Normalize(d))
                                : d \in Deduplicate(kept, pids)}}


\* ------------------------------------------------------------- distance
\* settings.DEFAULT_DISTANCE
DEFAULT_DISTANCE == 999

\* postal codes: the patient's code and two others
ZipCodes == {"z0", "z1", "z2"}
PatientZip == "z0"
Countries == {"US", "GB"}

\* distances a lookup can compute, in km, around the scoring thresholds
DistValues == {0, 5, 10, 50, 51, 100, 101, DEFAULT_DISTANCE, 1500}

Pair(a, b) == {a, b}

\* detect_country_and_coords(code): <<country>> with coordinates, or <<>>
\* for (None, None, None)
detect_country_and_coords(g, code) == g.country[code]

\* gd.query_postal_code(a, b) of the country's GeoDistance table: <<km>>, or
\* <<>> when there is no table, the query raises or the result is NaN
GeoDistanceQuery(g, a, b) == g.gd[Pair(a, b)]

\* haversine_distance on the two coordinates: <<km>>, or <<>> when the
\* arithmetic raises (sqrt of a negative number for near-antipodal points)
haversine_distance(g, a, b) == g.hav[Pair(a, b)]

\* DistanceCalculator._calculate_single_distance
_calculate_single_distance(g, a, b) ==
    IF a = b THEN 0
    ELSE LET c1 == detect_country_and_coords(g, a)
             c2 == detect_country_and_coords(g, b)
             dist == IF c1 # <<>> /\ c2 # <<>> /\ c1 = c2
                     THEN GeoDistanceQuery(g, a, b) ELSE <<>>
         IN  IF dist # <<>> THEN dist[1]
             ELSE IF c1 # <<>> /\ c2 # <<>>
                  THEN LET h == haversine_distance(g, a, b)
                       IN  IF h # <<>> THEN h[1] ELSE DEFAULT_DISTANCE
                  ELSE DEFAULT_DISTANCE

\* the minimum of a non-empty set of numbers
SetMin(S) == CHOOSE m \in S : \A x \in S : m <= x

\* DistanceCalculator.calculate_closest_distance: "" is the falsy patient_zip
calculate_closest_distance(g, pz, sites) ==
    IF pz = "" \/ sites = <<>> THEN DEFAULT_DISTANCE
    ELSE SetMin({_calculate_single_distance(g, pz, sites[i]) : i \in DOMAIN sites})

\* the module-level caches the lookups write: the lru_cache of
\* detect_country_and_coords (by code) and _geo_distance_cache (by country)
NoCaches == [detect |-> {}, gd |-> {}]

\* the caches after _calculate_single_distance(a, b)
CachesAfterSingle(c, g, a, b) ==
    IF a = b THEN c
    ELSE LET c1 == detect_country_and_coords(g, a)
             c2 == detect_country_and_coords(g, b)
         IN  [detect |-> c.detect \cup {a, b},
              gd |-> IF c1 # <<>> /\ c2 # <<>> /\ c1 = c2
                     THEN c.gd \cup {c1[1]} ELSE c.gd]

\* the caches after calculate_closest_distance(pz, sites)
RECURSIVE CachesAfterClosest(_, _, _, _)
CachesAfterClosest(c, g, pz, sites) ==
    IF pz = "" \/ sites = <<>> THEN c
    ELSE CachesAfterClosest(CachesAfterSingle(c, g, pz, sites[1]), g, pz, Tail(sites))

\* -------------------------------------------------------- query parsing
\* A query text is a sequence of tokens: the words Female and Male, an
\* "age >= n" comparison, the labels Target: and EXCLUSION:, and the terms
\* (character sequences) that follow a label.
SexWord(w) == [kind |-> "sex", word |-> w, n |-> 0, term |-> <<>>]
AgeAtLeast(n) == [kind |-> "age", word |-> "", n |-> n, term |-> <<>>]
Label(w) == [kind |-> "label", word |-> w, n |-> 0, term |-> <<>>]
Term(t) == [kind |-> "term", word |-> "", n |-> 0, term |-> t]

\* re.search: the first of the positions that match, 0 if there is none
FirstIndex(positions) ==
    IF positions = {} THEN 0
    ELSE CHOOSE i \in positions : \A j \in positions : i <= j

\* the longest common subsequence of two strings
RECURSIVE LCS(_, _)
LCS(s, t) ==
    IF s = <<>> \/ t = <<>> THEN 0
    ELSE IF s[1] = t[1] THEN 1 + LCS(Tail(s), Tail(t))
    ELSE Max2(LCS(Tail(s), t), LCS(s, Tail(t)))

\* fuzz.ratio(s, t) >= threshold: the ratio is 100 * 2 * LCS / (|s| + |t|)
RatioAtLeast(s, t, threshold) ==
    IF Len(s) + Len(t) = 0 THEN TRUE
    ELSE 200 * LCS(s, t) >= threshold * (Len(s) + Len(t))

\* fuzz.partial_ratio(s, t) >= threshold: the shorter string against the
\* windows of its length in the longer one
PartialRatioAtLeast(s, t, threshold) ==
    LET short == IF Len(s) <= Len(t) THEN s ELSE t
        long == IF Len(s) <= Len(t) THEN t ELSE s
    IN  IF short = <<>> THEN long = <<>>
        ELSE \E i \in 1..(Len(long) - Len(short) + 1) :
            RatioAtLeast(short, SubSeq(long, i, i + Len(short) - 1), threshold)

\* settings.FUZZY_MATCH_THRESHOLD and settings.FUZZY_MATCH_FALLBACK
FUZZY_MATCH_THRESHOLD == 85
FUZZY_MATCH_FALLBACK == 60

\* a set as a list, in some order
RECURSIVE SetToSeq(_)
SetToSeq(S) ==
    IF S = {} THEN <<>>
    ELSE LET x == CHOOSE y \in S : TRUE
         IN  <<x>> \o SetToSeq(S \ {x})

\* str.lower() and str.strip() on the characters the terms are made of
LowerChar(c) == IF c = "A" THEN "a" ELSE IF c = "B" THEN "b" ELSE c
Lower(t) == [i \in DOMAIN t |-> LowerChar(t[i])]

RECURSIVE Strip(_)
Strip(t) ==
    IF t = <<>> THEN <<>>
    ELSE IF t[1] = " " THEN Strip(Tail(t))
    ELSE IF t[Len(t)] = " " THEN Strip(SubSeq(t, 1, Len(t) - 1))
    ELSE t

\* the values of the two fuzzy rules together
FuzzyMatchEveryRule(unique_values, query_term) ==
    LET term == Strip(Lower(query_term))
    IN  {SetToSeq({v \in unique_values :
                      \/ PartialRatioAtLeast(term, Strip(Lower(v)), FUZZY_MATCH_FALLBACK)
                      \/ RatioAtLeast(term, Strip(Lower(v)), FUZZY_MATCH_FALLBACK)})}

\* lines 49-80 on the distinct non-null values of the column: the lists the
\* call can return.  unique() gives the values in no fixed order, so the
\* exact rule returns whichever equal value the loop meets first; the lists
\* of the two fuzzy rules are given in one order, no use of them reading the
\* order.  The values are single words, which the token sort leaves alone.
FuzzyMatch(unique_values, query_term) ==
    LET term == Strip(Lower(query_term))
        exact == {v \in unique_values : term = Strip(Lower(v))}
        close == {v \in unique_values :
                     RatioAtLeast(term, Strip(Lower(v)), FUZZY_MATCH_THRESHOLD)}
        partial == {v \in unique_values :
                       \/ PartialRatioAtLeast(term, Strip(Lower(v)), FUZZY_MATCH_FALLBACK)
                       \/ RatioAtLeast(term, Strip(Lower(v)), FUZZY_MATCH_FALLBACK)}
    IN  IF exact # {} THEN {<<v>> : v \in exact}
        ELSE IF close # {} THEN {SetToSeq(close)}
        ELSE {SetToSeq(partial)}

\* fuzzy_match_filter(query_term, "indication") on the loaded table
fuzzy_match_filter(df, query_term) ==
    FuzzyMatch({r.indication : r \in df} \ {Null}, query_term)

\* the tokens after position i, up to the next EXCLUSION: label (the texts
\* modelled put a term or a sex word between the two labels)
RECURSIVE TargetSegment(_, _)
TargetSegment(q, i) ==
    IF i >= Len(q) THEN <<>>
    ELSE IF q[i + 1].kind = "label" /\ q[i + 1].word = "EXCLUSION:" THEN <<>>
    ELSE <<q[i + 1]>> \o TargetSegment(q, i + 1)

\* the target with the sex words and age comparisons removed
MedicalCondition(segment) ==
    LET i == FirstIndex({j \in DOMAIN segment : segment[j].kind = "term"})
    IN  IF i = 0 THEN <<>> ELSE segment[i].term

\* the term that follows the label, <<>> (an empty string) without one
TermAfter(q, i) ==
    IF i < Len(q) /\ q[i + 1].kind = "term" THEN q[i + 1].term ELSE <<>>

\* a dict with the one key k
Dict1(k, v) == [x \in {k} |-> v]

\* an accessor that hands out whatever it holds
get_datasets_sync_never_raises(isLoaded) == FALSE

\* data_loader.get_datasets_sync() raises unless the datasets are loaded
get_datasets_sync_raises(isLoaded) == ~isLoaded

ParseRaised == [raised |-> TRUE, filters |-> <<>>]
Parsed(f) == [raised |-> FALSE, filters |-> f]

\* parse_query(query): query is <<>> for None, <<tokens>> for a text.  The
\* results the call can have: the filter dicts, or the exception of the
\* vocabulary lookup when the datasets are not loaded.
parse_query(df, isLoaded, query) ==
    IF query = <<>> \/ query[1] = <<>> THEN {Parsed(<<>>)}
    ELSE LET q == query[1]
             sex_match == FirstIndex({i \in DOMAIN q : q[i].kind = "sex"})
             age_match == FirstIndex({i \in DOMAIN q : q[i].kind = "age"})
             target_label == FirstIndex({i \in DOMAIN q : q[i].kind = "label" /\ q[i].word = "Target:"})
             target_match ==
                 IF target_label # 0 /\ TargetSegment(q, target_label) # <<>>
                 THEN target_label ELSE 0
             excl_label == FirstIndex({i \in DOMAIN q : q[i].kind = "label" /\ q[i].word = "EXCLUSION:"})
             excl_match == IF excl_label < Len(q) THEN excl_label ELSE 0
             sex == IF sex_match # 0
                    THEN Dict1("sex", IF q[sex_match].word = "Female" THEN "F" ELSE "M")
                    ELSE <<>>
             age == IF age_match # 0 THEN Dict1("age_min", q[age_match].n) ELSE <<>>
             inclusions ==
                 IF target_match # 0
                 THEN {Dict1("indication", synonyms) :
                          synonyms \in fuzzy_match_filter(
                              df, MedicalCondition(TargetSegment(q, target_match)))}
                 ELSE {<<>>}
             exclusions ==
                 IF excl_match # 0
                 THEN {Dict1("exclude", synonyms) :
                          synonyms \in fuzzy_match_filter(df, TermAfter(q, excl_match))}
                 ELSE {<<>>}
         IN  IF (target_match # 0 \/ excl_match # 0) /\ get_datasets_sync_raises(isLoaded)
             THEN {ParseRaised}
             ELSE {Parsed(sex @@ age @@ i @@ e) : i \in inclusions, e \in exclusions}

\* -------------------------------------------------------------- scoring
\* A date of the activity table is [null, lex, ago]: lex its rank in the
\* order .sort() gives the column (lexicographic when the column was read as
\* text), ago the days from the date to today, <<>> when safe_date cannot
\* parse it.
NullDate == [null |-> TRUE, lex |-> 0, ago |-> <<>>]
NullCategory == "<null>"
NullZip == "<null>"

\* safe_date(date_str): <<days ago>> or <<>> (None)
safe_date(d) == IF d.null THEN <<>> ELSE d.ago

\* patient_raw.filter(ACTIVITY_CATEGORY == cat).select(col).drop_nulls().to_list()
DatesOf(raw, cat) ==
    LET rows == SelectSeq(raw, LAMBDA a : a.ACTIVITY_CATEGORY = cat /\ ~a.ACTIVITY_DATE.null)
    IN  [i \in DOMAIN rows |-> rows[i].ACTIVITY_DATE]

IndicationsOf(raw, cat) ==
    {raw[i].INDICATION_NAME : i \in {j \in DOMAIN raw :
        raw[j].ACTIVITY_CATEGORY = cat /\ raw[j].INDICATION_NAME # Null}}

Last(q) == q[Len(q)]

\* sum(d.values()) of a dict
RECURSIVE SumValues(_)
SumValues(d) ==
    IF DOMAIN d = {} THEN 0
    ELSE LET x == CHOOSE y \in DOMAIN d : TRUE
         IN  d[x] + SumValues([y \in DOMAIN d \ {x} |-> d[y]])

Entry5(criterion, reason, points) ==
    [criterion |-> criterion, reason |-> reason, points |-> points]

\* lines 45-75
RecencyEntry(row, raw) ==
    LET pts == row.recency_points
        qualified_dates == DatesOf(raw, "QUALIFIED RESPONDENTS")
        reason ==
            IF pts > 0 /\ row.recency_reason = "Diagnosis-based" THEN "diagnosis"
            ELSE IF pts > 0 /\ row.recency_reason = "Recent Activity-based"
                 THEN "recent activity"
            ELSE IF qualified_dates # <<>>
                 THEN IF safe_date(Last(qualified_dates)) # <<>>
                      THEN "last qualified date" ELSE "last qualified date unparseable"
            ELSE "no activity data"
    IN  Entry5("Recency", reason, pts)

\* the categories looked for in the opposite order
ScreeningEntryLowestFirst(raw) ==
    LET activities == {raw[i].ACTIVITY_CATEGORY : i \in DOMAIN raw} \ {NullCategory}
    IN  IF "RESPONDENTS" \in activities THEN Entry5("PPD Screening", "RESPONDENTS", 20)
        ELSE IF "QUALIFIED RESPONDENTS" \in activities
             THEN Entry5("PPD Screening", "QUALIFIED RESPONDENTS", 30)
        ELSE IF "RELEASED" \in activities
             THEN Entry5("PPD Screening", "RELEASED", 40)
        ELSE Entry5("PPD Screening", "none", 0)

\* lines 77-106
ScreeningEntry(raw) ==
    LET activities == {raw[i].ACTIVITY_CATEGORY : i \in DOMAIN raw} \ {NullCategory}
    IN  IF "RELEASED" \in activities THEN Entry5("PPD Screening", "RELEASED", 40)
        ELSE IF "QUALIFIED RESPONDENTS" \in activities
             THEN Entry5("PPD Screening", "QUALIFIED RESPONDENTS", 30)
        ELSE IF "RESPONDENTS" \in activities
             THEN Entry5("PPD Screening", "RESPONDENTS", 20)
        ELSE Entry5("PPD Screening", "none", 0)

\* every (indication, category) pair counted on its own
SimilarStudiesEntryPerCategory(raw) ==
    Entry5("Similar Studies", "priority scoring",
           40 * Cardinality(IndicationsOf(raw, "RELEASED"))
           + 30 * Cardinality(IndicationsOf(raw, "QUALIFIED RESPONDENTS"))
           + 20 * Cardinality(IndicationsOf(raw, "RESPONDENTS")))

\* lines 108-149
SimilarStudiesEntry(raw) ==
    LET released == IndicationsOf(raw, "RELEASED")
        qualified == IndicationsOf(raw, "QUALIFIED RESPONDENTS")
        respondent == IndicationsOf(raw, "RESPONDENTS")
        indication_scores ==
            [ind \in released \cup qualified \cup respondent |->
                IF ind \in released THEN 40
                ELSE IF ind \in qualified THEN 30
                ELSE 20]
    IN  Entry5("Similar Studies",
               IF DOMAIN indication_scores # {} THEN "priority scoring"
               ELSE "0 indications",
               SumValues(indication_scores))

\* lines 164-181: the points of a distance
DistancePoints(d) ==
    IF d = 0 THEN [reason |-> "Exact match", points |-> 20]
    ELSE IF d < 10 THEN [reason |-> "Very close", points |-> 20]
    ELSE IF d <= 50 THEN [reason |-> "Moderate", points |-> 15]
    ELSE IF d <= 100 THEN [reason |-> "Far", points |-> 10]
    ELSE IF d = 999 THEN [reason |-> "Unable to calculate distance", points |-> 0]
    ELSE [reason |-> "Very far", points |-> 5]

\* lines 152-153: unique().drop_nulls()[0], any of the distinct codes
PatientZipChoices(raw) ==
    LET codes == {raw[i].POSTAL_CODE : i \in DOMAIN raw} \ {NullZip}
    IN  IF codes = {} THEN {NullZip} ELSE codes

\* lines 155-190, for the postal code pz picked from the history
DistanceEntry(g, pz, sites) ==
    IF sites # <<>>
    THEN IF pz # NullZip /\ pz # ""
         THEN LET d == IF pz \in Range(sites) THEN 0
                       ELSE calculate_closest_distance(g, pz, sites)
                  p == DistancePoints(d)
              IN  Entry5("Distance to Site", p.reason, p.points)
         ELSE Entry5("Distance to Site", "No patient location", 0)
    ELSE Entry5("Distance to Site", "Distance calculation not possible", 0)

\* the caches after the distance criterion of one scoring call
CachesAfterScoring(c, g, pz, sites) ==
    IF sites # <<>> /\ pz # NullZip /\ pz # "" /\ pz \notin Range(sites)
    THEN CachesAfterClosest(c, g, pz, sites)
    ELSE c

\* .sort(): the dates in the order of their lex rank; the last is the greatest
LastSorted(dates) ==
    CHOOSE d \in Range(dates) : \A e \in Range(dates) : e.lex <= d.lex

\* lines 192-218
PastQualificationEntry(raw) ==
    LET randomization_dates == DatesOf(raw, "RANDOMIZATION")
    IN  IF randomization_dates # <<>>
        THEN LET last == safe_date(LastSorted(randomization_dates))
             IN  IF last # <<>>
                 THEN IF 4 * last[1] >= 1461
                      THEN Entry5("Past Qualification", "Randomized", 25)
                      ELSE Entry5("Past Qualification", "Recently randomized", 0)
                 ELSE Entry5("Past Qualification", "Unparseable randomization date", 0)
        ELSE Entry5("Past Qualification", "No randomization history", 0)

\* score = pts in place of score += pts
AddPointsOverwrite(score, entry) == entry.points

\* lines 74-217: score += pts after each criterion
AddPoints(score, entry) == score + entry.points

\* lines 39-40: the activity rows of the patient, in table order
PatientRaw(row, merged) == SelectSeq(merged, LAMBDA a : a.PATIENT_ID = row.PATIENT_ID)

\* compute_score_with_breakdown_async(row, site_zip_codes) for one choice of
\* the patient's postal code
ScoreDetails(row, merged, g, pz, sites) ==
    LET raw == PatientRaw(row, merged)
        breakdown == <<RecencyEntry(row, raw), ScreeningEntry(raw),
                       SimilarStudiesEntry(raw), DistanceEntry(g, pz, sites),
                       PastQualificationEntry(raw)>>
        s1 == AddPoints(0, breakdown[1])
        s2 == AddPoints(s1, breakdown[2])
        s3 == AddPoints(s2, breakdown[3])
        s4 == AddPoints(s3, breakdown[4])
        s5 == AddPoints(s4, breakdown[5])
    IN  [total_business_score |-> s5, business_score_normalized |-> 0,
         business_score_percent |-> 0, breakdown |-> breakdown]

\* no result
NoScore ==
    [total_business_score |-> 0, business_score_normalized |-> 0,
     business_score_percent |-> 0, breakdown |-> <<>>]

\* the results a call can have
compute_score_with_breakdown_async(row, merged, g, sites) ==
    {ScoreDetails(row, merged, g, pz, sites) :
        pz \in PatientZipChoices(PatientRaw(row, merged))}

\* ------------------------------------------------------------ the API
\* what QueryRequest(...) gives: the request, or a validation error.  The
\* keyword arguments are a dict; a value is <<>> for None and <<v>> for v.
\* query is a required str and top_k an int with default 50, so None is
\* refused for both.
REQUEST_TOP_K_DEFAULT == 50
ValidationError == [valid |-> FALSE, query |-> <<>>, site_zip_codes |-> <<>>, top_k |-> None]
QueryRequest(kwargs) ==
    IF "query" \notin DOMAIN kwargs \/ kwargs.query = None THEN ValidationError
    ELSE IF "top_k" \in DOMAIN kwargs /\ kwargs.top_k = None THEN ValidationError
    ELSE [valid |-> TRUE,
          query |-> kwargs.query[1],
          site_zip_codes |->
              IF "site_zip_codes" \in DOMAIN kwargs THEN kwargs.site_zip_codes ELSE <<>>,
          top_k |->
              IF "top_k" \in DOMAIN kwargs THEN kwargs.top_k ELSE Some(REQUEST_TOP_K_DEFAULT)]

\* a list left in the order it came in
KeepOrder(pairs) == pairs

\* list.sort(key=..., reverse=True) on a list of [key, item] pairs: stable,
\* equal keys keep their order
InsertDescending(sorted, x) ==
    LET n == Cardinality({i \in DOMAIN sorted : sorted[i].key >= x.key})
    IN  SubSeq(sorted, 1, n) \o <<x>> \o SubSeq(sorted, n + 1, Len(sorted))

RECURSIVE SortByKeyDescending(_)
SortByKeyDescending(pairs) ==
    IF pairs = <<>> THEN <<>>
    ELSE InsertDescending(SortByKeyDescending(SubSeq(pairs, 1, Len(pairs) - 1)),
                          pairs[Len(pairs)])

Items(pairs) == [i \in DOMAIN pairs |-> pairs[i].item]

\* what gather(return_exceptions=True) holds for one task: the exception
\* object when the call raised (int(recency_points) at line 45 refusing the
\* value, before any lookup), else the score details; patient_zip records the
\* postal code the call picked
ScoringRaised == [raised |-> TRUE, details |-> NoScore, patient_zip |-> NullZip]
process_with_semaphore(row, merged, g, sites, flt) ==
    IF row.PATIENT_ID \in flt THEN {ScoringRaised}
    ELSE {[raised |-> FALSE,
           details |-> ScoreDetails(row, merged, g, pz, sites),
           patient_zip |-> pz] : pz \in PatientZipChoices(PatientRaw(row, merged))}

\* compute_score_batch(patients, site_zip_codes): the lists of results the
\* batch can give, one result per patient in the order of the patients
RECURSIVE compute_score_batch(_, _, _, _, _)
compute_score_batch(patients, merged, g, sites, flt) ==
    IF patients = <<>> THEN {<<>>}
    ELSE {Append(rest, d) :
            rest \in compute_score_batch(SubSeq(patients, 1, Len(patients) - 1),
                                         merged, g, sites, flt),
            d \in process_with_semaphore(patients[Len(patients)], merged, g, sites, flt)}

\* n / d rounded to the nearest integer, halves to the even one
RoundDiv(n, d) ==
    LET q == n \div d
        r == n % d
    IN  IF 2 * r < d THEN q
        ELSE IF 2 * r > d THEN q + 1
        ELSE IF q % 2 = 0 THEN q ELSE q + 1

\* the max of the list in place of max - min as the divisor
NormalizedOfMax(score, min_score, max_score) ==
    IF max_score > min_score
    THEN RoundDiv(score * 10000, max_score)
    ELSE 10000

\* lines 104-114: round(normalized, 4) in ten-thousandths, which is also
\* round(normalized * 100, 2) in hundredths of a percent
NormalizedOf(score, min_score, max_score) ==
    IF max_score > min_score
    THEN RoundDiv((score - min_score) * 10000, max_score - min_score)
    ELSE 10000

\* lines 82-114: one entry of the result list
Result(p, min_score, max_score) ==
    LET n == NormalizedOf(p.key, min_score, max_score)
    IN  [patient_id |-> p.item.row.PATIENT_ID,
         age |-> p.item.row.age,
         sex |-> p.item.row.sex,
         indication |-> p.item.row.indication,
         latest_milestone |-> p.item.row.latest_milestone,
         score_details |->
             [total_business_score |-> p.item.details.total_business_score,
              business_score_normalized |-> n,
              business_score_percent |-> n,
              breakdown |-> p.item.details.breakdown],
         match_score_percent |-> n]

NoResponse ==
    [status |-> 0, patients |-> <<>>, total_matching_patients |-> 0, returned_patients |-> 0]
ErrorResponse(code) ==
    [status |-> code, patients |-> <<>>, total_matching_patients |-> 0, returned_patients |-> 0]
QueryResponse(results, total) ==
    [status |-> 200, patients |-> results, total_matching_patients |-> total,
     returned_patients |-> Len(results)]

\* lines 71-114: the result list for the scored candidates
Ranked(candidates, scored_patients, effective_top_k) ==
    LET by_new_score == SortByKeyDescending(
                      [i \in DOMAIN candidates |->
                          [key |-> scored_patients[i].details.total_business_score,
                           item |-> [row |-> candidates[i],
                                     details |-> scored_patients[i].details]]])
        patients == IF effective_top_k # None /\ effective_top_k[1] # 0
                    THEN HeadRows(by_new_score, effective_top_k[1])
                    ELSE by_new_score
        results == SortByKeyDescending(patients)
    IN  IF results = <<>> THEN <<>>
        ELSE [i \in DOMAIN results |->
                 Result(results[i], results[Len(results)].key, results[1].key)]

\* lines 56-63: the candidates that are scored
CandidatesToScore(all_matching, max_score_candidates) ==
    HeadRows(Items(SortByKeyDescending(
                 [i \in DOMAIN all_matching |->
                     [key |-> all_matching[i].business_score,
                      item |-> all_matching[i]]])),
             max_score_candidates)

\* the subscript is never refused
ScoresNeverRaise(scored_patients) == FALSE

\* lines 71-73: scored_patients[i]["total_business_score"] raises a
\* TypeError when scored_patients[i] is an exception object
ScoresRaise(scored_patients) == \E i \in DOMAIN scored_patients : scored_patients[i].raised

\* lines 71-73: the candidates with the _new_score the loop attached before
\* it met an exception object
Attached(candidates, scored_patients) ==
    [i \in DOMAIN candidates |->
        [row |-> candidates[i],
         _new_score |->
            IF \A j \in 1..i : ~scored_patients[j].raised
            THEN Some(scored_patients[i].details.total_business_score)
            ELSE None]]

\* one execution of the handler: the response, the two lists it held and
\* the results of the scoring calls it made
Run(resp, matching, candidates, scored) ==
    [response |-> resp, matching |-> matching, candidates |-> candidates,
     scored |-> scored]

\* query_patients(request): the executions the call can have
query_patients(df, merged, g, isLoaded, flt, req) ==
    UNION {
        IF parsed.raised THEN {Run(ErrorResponse(500), <<>>, <<>>, <<>>)}
        ELSE IF "indication" \in DOMAIN parsed.filters /\ parsed.filters.indication = <<>>
        THEN {Run(QueryResponse(<<>>, 0), <<>>, <<>>, <<>>)}
        ELSE IF get_datasets_sync_raises(isLoaded)
        THEN {Run(ErrorResponse(500), <<>>, <<>>, <<>>)}
        ELSE UNION {
            IF result.state = "raised" THEN {Run(ErrorResponse(500), <<>>, <<>>, <<>>)}
            ELSE IF result.rows = <<>> THEN {Run(QueryResponse(<<>>, 0), <<>>, <<>>, <<>>)}
            ELSE LET max_score_candidates ==
                         IF req.top_k = None THEN 5000
                         ELSE Min2(req.top_k[1] * 50, 10000)
                     candidates == CandidatesToScore(result.rows, max_score_candidates)
                 IN  {Run(IF ScoresRaise(scored_patients) THEN ErrorResponse(500)
                          ELSE QueryResponse(Ranked(candidates, scored_patients, req.top_k),
                                             Len(result.rows)),
                          result.rows, Attached(candidates, scored_patients),
                          scored_patients) :
                         scored_patients \in
                             compute_score_batch(candidates, merged, g,
                                                 req.site_zip_codes, flt)}
            : result \in filter_patients_async(df, parsed.filters, None)}
        : parsed \in parse_query(df, isLoaded, Some(req.query))}

\* POST /query: the body is validated into a QueryRequest before the handler
\* runs; a body that fails is answered with 422
PostQuery(df, merged, g, isLoaded, flt, body) ==
    LET req == QueryRequest(body)
    IN  IF req.valid THEN query_patients(df, merged, g, isLoaded, flt, req)
        ELSE {Run(ErrorResponse(422), <<>>, <<>>, <<>>)}

\* POST /zip-query: query_by_zip_only builds the request itself; an exception
\* of the construction is not handled and is answered with 500
query_by_zip_only(df, merged, g, isLoaded, flt, body) ==
    LET site_codes == IF "site_zip_codes" \in DOMAIN body THEN body.site_zip_codes ELSE <<>>
        k == IF "top_k" \in DOMAIN body THEN body.top_k ELSE None
        query_request == QueryRequest([query |-> None, site_zip_codes |-> site_codes,
                                       top_k |-> k])
    IN  IF query_request.valid
        THEN query_patients(df, merged, g, isLoaded, flt, query_request)
        ELSE {Run(ErrorResponse(500), <<>>, <<>>, <<>>)}

\* the caches after the scoring calls of one execution
RECURSIVE CachesAfterBatch(_, _, _, _)
CachesAfterBatch(c, g, scored, sites) ==
    IF scored = <<>> THEN c
    ELSE CachesAfterBatch(
             IF scored[1].raised THEN c
             ELSE CachesAfterScoring(c, g, scored[1].patient_zip, sites),
             g, Tail(scored), sites)

\* ------------------------------------------------------- input domains
A == <<"a">>
AB == <<"a", "b">>
AParenB == <<"a", "(", "b", ")">>
Unclosed == <<"a", "(">>

PatientIds == {1, 2}
AgeMin == 40
\* (sex, age): passes both filters, fails the sex filter, fails the age filter
Demographics == {<<"F", AgeMin>>, <<"M", AgeMin>>, <<"F", AgeMin - 1>>}
Indications == {Null, A, AB, AParenB}
BaseScores == {1, 2}

Row(pid, sex, age, ind, bs) ==
    [PATIENT_ID |-> pid, sex |-> sex, age |-> age, indication |-> ind,
     business_score |-> bs, recency_points |-> 0, recency_reason |-> "Unknown",
     latest_milestone |-> "Unknown"]

RowDomain ==
    {Row(pid, d[1], d[2], ind, bs) :
        pid \in PatientIds, d \in Demographics,
        ind \in Indications, bs \in BaseScores}

\* the subsets of S with at most n elements
RECURSIVE SetsUpTo(_, _)
SetsUpTo(S, n) ==
    IF n = 0 THEN {{}}
    ELSE LET smaller == SetsUpTo(S, n - 1)
         IN  smaller \cup {s \cup {x} : s \in smaller, x \in S}

\* a dict with at most the one key k
Entry(k, values) == {<<>>} \cup {[x \in {k} |-> v] : v \in values}

FilterSets ==
    {s @@ a @@ i @@ e :
        s \in Entry("sex", {"F"}),
        a \in Entry("age_min", {AgeMin}),
        i \in Entry("indication", {<<>>, <<A, AParenB>>}),
        e \in Entry("exclude", {<<>>, <<A>>, <<AParenB>>, <<Unclosed>>})}

TopKs == {None, Some(0), Some(1)}

\* the reference data: which codes resolve (and to which country) and what
\* the two distance computations give for the pairs (patient code, other code)
OtherZips == ZipCodes \ {PatientZip}
Opt(S) == {<<>>} \cup {<<x>> : x \in S}

\* what the reference data can hold for one other code, the patient's code
\* resolving to c0 (<<>>: not at all).  Entries no lookup reads are <<>>.
SiteProfiles(c0) ==
    IF c0 = <<>>
    THEN {[country |-> c, gd |-> <<>>, hav |-> <<>>] : c \in Opt(Countries)}
    ELSE {[country |-> <<>>, gd |-> <<>>, hav |-> <<>>]}
         \cup {[country |-> c0, gd |-> <<d>>, hav |-> <<>>] : d \in DistValues}
         \cup {[country |-> <<c>>, gd |-> <<>>, hav |-> h] :
                  c \in Countries, h \in Opt(DistValues)}

GeoOf(c0, prof) ==
    [country |-> [z \in ZipCodes |-> IF z = PatientZip THEN c0 ELSE prof[z].country],
     gd |-> [pr \in {Pair(PatientZip, z) : z \in OtherZips} |->
                prof[CHOOSE z \in OtherZips : z \in pr].gd],
     hav |-> [pr \in {Pair(PatientZip, z) : z \in OtherZips} |->
                prof[CHOOSE z \in OtherZips : z \in pr].hav]]

GeoTables ==
    UNION {{GeoOf(c0, prof) : prof \in [OtherZips -> SiteProfiles(c0)]}
              : c0 \in {<<>>, <<"US">>}}

NoGeo == GeoOf(<<>>, [z \in OtherZips |-> [country |-> <<>>, gd |-> <<>>, hav |-> <<>>]])
NoDistance == [state |-> "idle", value |-> 0]

RECURSIVE SeqsUpTo(_, _)
SeqsUpTo(S, n) ==
    IF n = 0 THEN {<<>>}
    ELSE LET shorter == SeqsUpTo(S, n - 1)
         IN  shorter \cup {Append(q, x) : q \in shorter, x \in S}

\* ------------------------------------------------------ activity rows
Activity(pid, cat, date, ind, zip) ==
    [PATIENT_ID |-> pid, ACTIVITY_CATEGORY |-> cat, ACTIVITY_DATE |-> date,
     INDICATION_NAME |-> ind, POSTAL_CODE |-> zip]

Categories ==
    {"RELEASED", "QUALIFIED RESPONDENTS", "RESPONDENTS", "RANDOMIZATION", NullCategory}

\* more than a year ago and first in the column's order; less than a year
\* ago; more than a year ago and last in the column's order (a text column
\* of month/day/year strings); a text no format parses
DateValues ==
    {[null |-> FALSE, lex |-> 1, ago |-> <<400>>],
     [null |-> FALSE, lex |-> 2, ago |-> <<100>>],
     [null |-> FALSE, lex |-> 3, ago |-> <<400>>],
     [null |-> FALSE, lex |-> 4, ago |-> <<>>]}
SomeDate == [null |-> FALSE, lex |-> 1, ago |-> <<400>>]

\* the patient rows handed to the scoring call
ScoreRows ==
    {[PATIENT_ID |-> 1, sex |-> "F", age |-> AgeMin, indication |-> A,
      business_score |-> 1, recency_points |-> rp[1], recency_reason |-> rp[2],
      latest_milestone |-> "RELEASED"] :
        rp \in {<<0, "Unknown">>, <<30, "Diagnosis-based">>,
                <<30, "Recent Activity-based">>, <<30, "Unknown">>}}
PlainRow == CHOOSE r \in ScoreRows : r.recency_points = 0

\* histories that vary what the recency, screening and past-qualification
\* criteria read (category and date)
DatedActivities ==
    {Activity(1, cat, d, A, PatientZip) :
        cat \in Categories, d \in DateValues \cup {NullDate}}

\* histories that vary what the similar-studies criterion reads (category
\* and indication), among them rows of another patient
StudyActivities ==
    {Activity(pid, cat, SomeDate, ind, PatientZip) :
        pid \in PatientIds, cat \in Categories, ind \in {Null, A, AB}}

\* histories that vary what the distance criterion reads (postal code)
LocatedHistories ==
    {<<>>,
     <<Activity(1, "RELEASED", SomeDate, A, PatientZip)>>,
     <<Activity(1, "RELEASED", SomeDate, A, NullZip)>>,
     <<Activity(1, "RELEASED", SomeDate, A, PatientZip),
       Activity(1, "RESPONDENTS", SomeDate, A, "")>>}

\* a fixed reference table for the runs that vary the history
PlainGeo ==
    GeoOf(<<"US">>, [z \in OtherZips |->
        IF z = "z1" THEN [country |-> <<"US">>, gd |-> <<5>>, hav |-> <<>>]
        ELSE [country |-> <<>>, gd |-> <<>>, hav |-> <<>>]])

FilterIdle ==
    scored_df = {} /\ filters = <<>> /\ top_k = None /\ filtered = NotCalled
DistIdle ==
    geo = NoGeo /\ patient_zip = "" /\ site_zip_codes = <<>> /\ distance = NoDistance
ScoreIdle ==
    merged_df = <<>> /\ patient = PlainRow /\ score_details = NoScore
NoRequest == [endpoint |-> "", body |-> <<>>]
QueryIdle ==
    /\ request = NoRequest /\ response = NoResponse
    /\ loaded = TRUE /\ faults = {}
    /\ all_matching_patients = <<>> /\ candidates_to_score = <<>>
\* a process that has scored nothing yet
CachesEmpty ==
    _cached_merged_df = None /\ detect_cache = {} /\ _geo_distance_cache = {}
\* a loader nobody has called
LoadIdle ==
    callers = <<>> /\ _loading_lock = 0 /\ load_runs = 0 /\ stored = 0
\* no batch, no fan-out and no resolution in progress
BatchIdle ==
    /\ tasks = <<>> /\ semaphore = 0 /\ max_concurrent = 0 /\ batch_result = None
    /\ lookups = <<>>
    /\ resolutions = <<>>
    /\ LoadIdle

\* ------------------------------------------------- the filtering runs
InitFilter ==
    /\ scored_df \in SetsUpTo(RowDomain, MaxRows)
    /\ filters = <<>>
    /\ top_k = None
    /\ filtered = NotCalled
    /\ DistIdle /\ ScoreIdle /\ QueryIdle /\ CachesEmpty /\ BatchIdle

\* one call of filter_patients_async on the loaded table
FilterCall ==
    /\ filtered.state = "idle"
    /\ \E f \in FilterSets, k \in TopKs :
          /\ filters' = f
          /\ top_k' = k
          /\ filtered' \in filter_patients_async(scored_df, f, k)
    /\ UNCHANGED <<scored_df, distVars, scoreVars, queryVars, cacheVars, batchVars, lookups, resolutions, loadVars>>

NextFilter == FilterCall

SpecFilter == InitFilter /\ [][NextFilter]_vars

\* ------------------------------------------------- filtering: properties
\* a returned row without the column the call added
Base(r) ==
    [PATIENT_ID |-> r.PATIENT_ID, sex |-> r.sex, age |-> r.age,
     indication |-> r.indication, business_score |-> r.business_score,
     recency_points |-> r.recency_points, recency_reason |-> r.recency_reason,
     latest_milestone |-> r.latest_milestone]

Has(f, k) == k \in DOMAIN f

ReturnedRows == IF filtered.state = "returned" THEN Range(filtered.rows) ELSE {}

ContainsSomeTerm(ind, terms) ==
    ind # Null /\ \E i \in DOMAIN terms : StrContainsLiteral(ind, terms[i])

\* C1: every patient returned by filter_patients_async satisfies all the
\* constraints present in the filter set at once: sex equal, age >= age_min,
\* indication a member of the inclusion set, and indication containing no
\* term of a non-empty exclusion set.
C1_ReturnedSatisfyAllConstraints ==
    \A r \in ReturnedRows :
        /\ Has(filters, "sex") => r.sex = filters["sex"]
        /\ Has(filters, "age_min") => r.age >= filters["age_min"]
        /\ Has(filters, "indication") => r.indication \in Range(filters["indication"])
        /\ (Has(filters, "exclude") /\ filters["exclude"] # <<>>)
              => ~ContainsSomeTerm(r.indication, filters["exclude"])

\* rows that pass the filters of the call, and the identifiers among them
Passing == ApplyFilters(scored_df, filters)
PassingOf(pid) == {r \in Passing : r.PATIENT_ID = pid}
SeveralPassing == {pid \in PatientIds : Cardinality(PassingOf(pid)) >= 2}
ReturnedOf(pid) == {i \in DOMAIN filtered.rows : filtered.rows[i].PATIENT_ID = pid}
IsBestOf(r, pid) ==
    /\ Base(r) \in PassingOf(pid)
    /\ \A q \in PassingOf(pid) : q.business_score <= r.business_score

C5_InclusionExactExclusionSubstring ==
    \A r \in ReturnedRows :
        /\ (Has(filters, "indication") /\ filters["indication"] # <<>>)
              => r.indication \in Range(filters["indication"])
        /\ (Has(filters, "exclude") /\ filters["exclude"] # <<>>)
              => ~ContainsSomeTerm(r.indication, filters["exclude"])

\* the lists the unbounded call can return for the filters of the call
Unbounded == {u.rows : u \in filter_patients_async(scored_df, filters, None)}

\* C18: the returned list descends by business_score; the unbounded call
\* returns one row for each patient that passes the filters; and a call with
\* a limit returns the first top_k entries of what the unbounded call
\* returns.
C18_BoundedIsPrefixOfUnbounded ==
    filtered.state = "returned" =>
        /\ \A i, j \in DOMAIN filtered.rows :
              i < j => filtered.rows[i].business_score >= filtered.rows[j].business_score
        /\ \A u \in Unbounded :
              /\ Len(u) = Cardinality({r.PATIENT_ID : r \in Passing})
              /\ top_k # None => filtered.rows = HeadRows(u, top_k[1])

\* the same without the comparison of two calls: the list descends, is no
\* longer than the limit, and is the head of one of the unbounded lists
C18_SortedAndTruncated ==
    filtered.state = "returned" =>
        /\ \A i, j \in DOMAIN filtered.rows :
              i < j => filtered.rows[i].business_score >= filtered.rows[j].business_score
        /\ \A u \in Unbounded : Len(u) = Cardinality({r.PATIENT_ID : r \in Passing})
        /\ top_k # None => \E u \in Unbounded : filtered.rows = HeadRows(u, top_k[1])

\* the filter sets parse_query makes of an empty query text, the datasets
\* loaded or not
EmptyQueryFilters ==
    {p.filters : p \in UNION {parse_query(scored_df, l, Some(<<>>)) : l \in BOOLEAN}}

\* C21: parse_query makes the empty filter set of an empty query, without a
\* lookup in the vocabulary (it does so before the datasets are loaded too),
\* and filter_patients_async with the empty filter set returns every patient
\* identifier of the table exactly once.
C21_EmptyQueryKeepsEveryPatient ==
    /\ \A l \in BOOLEAN : parse_query(scored_df, l, Some(<<>>)) = {Parsed(<<>>)}
    /\ (filtered.state = "returned" /\ filters \in EmptyQueryFilters /\ top_k = None) =>
          /\ \A pid \in {r.PATIENT_ID : r \in scored_df} :
                Cardinality(ReturnedOf(pid)) = 1
          /\ Len(filtered.rows) = Cardinality({r.PATIENT_ID : r \in scored_df})

\* the empty filter set on a table with two rows of one patient
C21_Witness ==
    /\ filtered.state = "returned" /\ filters = <<>> /\ top_k = None
    /\ \E a, b \in scored_df : a # b /\ a.PATIENT_ID = b.PATIENT_ID
    /\ Len(filtered.rows) = 1

\* the row satisfies every constraint present in the filter set of the call
Eligible(r) ==
    /\ Has(filters, "sex") => r.sex = filters["sex"]
    /\ Has(filters, "age_min") => r.age >= filters["age_min"]
    /\ Has(filters, "indication") => r.indication \in Range(filters["indication"])
    /\ (Has(filters, "exclude") /\ filters["exclude"] # <<>>)
          => ~ContainsSomeTerm(r.indication, filters["exclude"])

\* C29: every patient identifier with a row of the table that satisfies all
\* the constraints of the filter set is in the result of the unbounded call.
C29_NoEligiblePatientDropped ==
    (filtered.state = "returned" /\ top_k = None) =>
        \A r \in scored_df : Eligible(r) => ReturnedOf(r.PATIENT_ID) # {}

\* the same for the filter sets without exclusion terms
C29_NoneDroppedWithoutExclusion ==
    (filtered.state = "returned" /\ top_k = None
        /\ ~(Has(filters, "exclude") /\ filters["exclude"] # <<>>)) =>
        \A r \in scored_df : Eligible(r) => ReturnedOf(r.PATIENT_ID) # {}

\* -------------------------------------------------- the distance runs
InitDist ==
    /\ geo \in GeoTables
    /\ patient_zip = "" /\ site_zip_codes = <<>>
    /\ distance = NoDistance
    /\ FilterIdle /\ ScoreIdle /\ QueryIdle /\ CachesEmpty /\ BatchIdle

\* one call of _calculate_single_distance(a, b)
SingleDistanceCall ==
    /\ distance.state = "idle"
    /\ \E a, b \in ZipCodes :
          /\ a = b \/ a = PatientZip
          /\ patient_zip' = a
          /\ site_zip_codes' = <<b>>
          /\ distance' = [state |-> "single",
                          value |-> _calculate_single_distance(geo, a, b)]
          /\ LET c == CachesAfterSingle([detect |-> detect_cache,
                                         gd |-> _geo_distance_cache], geo, a, b)
             IN  detect_cache' = c.detect /\ _geo_distance_cache' = c.gd
    /\ UNCHANGED <<geo, filterVars, scoreVars, queryVars, _cached_merged_df, batchVars, lookups, resolutions, loadVars>>

\* one call of calculate_closest_distance(patient_zip, site_zip_codes)
ClosestDistanceCall ==
    /\ distance.state = "idle"
    /\ \E pz \in {PatientZip, ""}, sites \in SeqsUpTo(ZipCodes, MaxSites) :
          /\ patient_zip' = pz
          /\ site_zip_codes' = sites
          /\ distance' = [state |-> "closest",
                          value |-> calculate_closest_distance(geo, pz, sites)]
          /\ LET c == CachesAfterClosest([detect |-> detect_cache,
                                          gd |-> _geo_distance_cache], geo, pz, sites)
             IN  detect_cache' = c.detect /\ _geo_distance_cache' = c.gd
    /\ UNCHANGED <<geo, filterVars, scoreVars, queryVars, _cached_merged_df, batchVars, lookups, resolutions, loadVars>>

NextDist == SingleDistanceCall \/ ClosestDistanceCall

SpecDist == InitDist /\ [][NextDist]_vars

\* -------------------------------------------------- distance: properties
\* whether coordinate resolution succeeds for a code
Resolves(code) == geo.country[code] # <<>>

\* the distance of a pair as the resolver is specified: <<km>> for a real
\* computed distance, <<>> for "unknown"
SpecDistance(a, b) ==
    IF a = b THEN <<0>>
    ELSE IF ~(Resolves(a) /\ Resolves(b)) THEN <<>>
    ELSE IF geo.country[a] = geo.country[b] /\ geo.gd[Pair(a, b)] # <<>>
         THEN geo.gd[Pair(a, b)]
    ELSE geo.hav[Pair(a, b)]

\* C6: distance(A, A) = 0, and for A # B the result is the sentinel
\* DEFAULT_DISTANCE if and only if A or B fails coordinate resolution.
C6_SentinelIffUnresolved ==
    distance.state = "single" =>
        LET a == patient_zip
            b == site_zip_codes[1]
        IN  /\ a = b => distance.value = 0
            /\ a # b => (distance.value = DEFAULT_DISTANCE
                            <=> ~(Resolves(a) /\ Resolves(b)))

\* C7: with several site codes the result is the minimum over the sites
\* whose distance resolved, and it is "unknown" only when no site resolved.
C7_MinimumOverResolvedSites ==
    (distance.state = "closest" /\ patient_zip # "" /\ site_zip_codes # <<>>) =>
        LET known == {SpecDistance(patient_zip, site_zip_codes[i])[1] :
                         i \in {j \in DOMAIN site_zip_codes :
                                   SpecDistance(patient_zip, site_zip_codes[j]) # <<>>}}
        IN  IF known = {} THEN distance.value = DEFAULT_DISTANCE
            ELSE distance.value = SetMin(known)

\* --------------------------------------------------- the scoring runs
\* the inputs: every history of dated activities with every patient row,
\* every history of study activities, and every reference table and list of
\* site codes with the histories that differ in postal code
InitScore ==
    /\ \/ /\ merged_df \in SeqsUpTo(DatedActivities, MaxActivities)
          /\ patient \in ScoreRows
          /\ geo = PlainGeo
          /\ site_zip_codes \in {<<>>, <<"z1">>}
       \/ /\ merged_df \in SeqsUpTo(StudyActivities, MaxActivities)
          /\ patient = PlainRow
          /\ geo = PlainGeo
          /\ site_zip_codes \in {<<>>, <<"z1">>}
       \/ /\ merged_df \in LocatedHistories
          /\ patient = PlainRow
          /\ geo \in GeoTables
          /\ site_zip_codes \in SeqsUpTo(ZipCodes, MaxSites)
    /\ score_details = NoScore
    /\ patient_zip = "" /\ distance = NoDistance
    /\ FilterIdle /\ QueryIdle /\ CachesEmpty /\ BatchIdle

\* one call of compute_score_with_breakdown_async(patient, site_zip_codes)
\* (patient_zip records the postal code the call picked from the history)
ScoreCall ==
    /\ score_details.breakdown = <<>>
    /\ \E pz \in PatientZipChoices(PatientRaw(patient, merged_df)) :
          /\ patient_zip' = pz
          /\ score_details' = ScoreDetails(patient, merged_df, geo, pz, site_zip_codes)
          /\ LET c == CachesAfterScoring([detect |-> detect_cache,
                                          gd |-> _geo_distance_cache],
                                         geo, pz, site_zip_codes)
             IN  detect_cache' = c.detect /\ _geo_distance_cache' = c.gd
    /\ _cached_merged_df' =
          IF _cached_merged_df = None THEN Some(merged_df) ELSE _cached_merged_df
    /\ UNCHANGED <<merged_df, patient, geo, site_zip_codes, distance, filterVars, queryVars,
                   batchVars, lookups, resolutions, loadVars>>

NextScore == ScoreCall

SpecScore == InitScore /\ [][NextScore]_vars

\* --------------------------------------------------- scoring: properties
Scored == score_details.breakdown # <<>>

RECURSIVE SumPoints(_)
SumPoints(entries) ==
    IF entries = <<>> THEN 0
    ELSE entries[1].points + SumPoints(Tail(entries))

\* C2: the breakdown has exactly five entries, Recency, PPD Screening,
\* Similar Studies, Distance to Site and Past Qualification in that order,
\* and their points sum to total_business_score.
C2_BreakdownSumsToTotal ==
    Scored =>
        /\ [i \in DOMAIN score_details.breakdown |-> score_details.breakdown[i].criterion]
              = <<"Recency", "PPD Screening", "Similar Studies",
                  "Distance to Site", "Past Qualification">>
        /\ SumPoints(score_details.breakdown) = score_details.total_business_score

\* a scored patient with points from every one of the five criteria
C2_Witness ==
    /\ Scored
    /\ \A i \in DOMAIN score_details.breakdown : score_details.breakdown[i].points > 0

\* C8: the Distance-to-Site points are 0 without site codes or without a
\* patient postal code; otherwise 20 for a site equal to the patient's code
\* or a minimum distance of 0, 20 below 10, 15 up to 50, 10 up to 100, 0 when
\* the distance is unresolved and 5 for every resolved distance over 100.
C8_DistancePoints ==
    Scored =>
        LET pts == score_details.breakdown[4].points
            known == {SpecDistance(patient_zip, site_zip_codes[i])[1] :
                         i \in {j \in DOMAIN site_zip_codes :
                                   SpecDistance(patient_zip, site_zip_codes[j]) # <<>>}}
        IN  IF site_zip_codes = <<>> \/ patient_zip \in {NullZip, ""} THEN pts = 0
            ELSE IF patient_zip \in Range(site_zip_codes) THEN pts = 20
            ELSE IF known = {} THEN pts = 0
            ELSE LET d == SetMin(known)
                 IN  pts = IF d < 10 THEN 20
                           ELSE IF d <= 50 THEN 15
                           ELSE IF d <= 100 THEN 10
                           ELSE 5


\* C16: a call of compute_score_with_breakdown_async, its distance lookups
\* included, leaves every module-level variable as it was: the cached
\* activity table of scoring.py and the caches of distance.py.
C16_ScoringWritesNoSharedState ==
    [][cacheVars' = cacheVars]_vars

\* the activity rows of the scored patient in the table, and whether one of
\* them has the category
History == {i \in DOMAIN merged_df : merged_df[i].PATIENT_ID = patient.PATIENT_ID}
HasActivity(cat) == \E i \in History : merged_df[i].ACTIVITY_CATEGORY = cat

\* C22: the screening points come from the highest-priority category in the
\* patient's history alone: 40 with a RELEASED activity, else 30 with a
\* QUALIFIED RESPONDENTS activity, else 20 with a RESPONDENTS activity, else 0.
C22_ScreeningByHighestCategory ==
    Scored =>
        score_details.breakdown[2].points =
            IF HasActivity("RELEASED") THEN 40
            ELSE IF HasActivity("QUALIFIED RESPONDENTS") THEN 30
            ELSE IF HasActivity("RESPONDENTS") THEN 20
            ELSE 0

\* a patient scored 40 with a RELEASED and a lower-priority activity
C22_Witness ==
    /\ Scored
    /\ HasActivity("RELEASED")
    /\ HasActivity("RESPONDENTS") \/ HasActivity("QUALIFIED RESPONDENTS")
    /\ score_details.breakdown[2].points = 40

\* the priority of a category, the indications the patient's history has
\* under a category with a priority, and the highest priority of each
Priority(cat) ==
    IF cat = "RELEASED" THEN 40
    ELSE IF cat = "QUALIFIED RESPONDENTS" THEN 30
    ELSE IF cat = "RESPONDENTS" THEN 20
    ELSE 0
StudyRows == {i \in History : Priority(merged_df[i].ACTIVITY_CATEGORY) > 0
                              /\ merged_df[i].INDICATION_NAME # Null}
StudyIndications == {merged_df[i].INDICATION_NAME : i \in StudyRows}
BestPriority(ind) ==
    LET seen == {Priority(merged_df[i].ACTIVITY_CATEGORY) :
                    i \in {j \in StudyRows : merged_df[j].INDICATION_NAME = ind}}
    IN  CHOOSE m \in seen : \A x \in seen : m >= x

RECURSIVE SumBest(_)
SumBest(inds) ==
    IF inds = {} THEN 0
    ELSE LET ind == CHOOSE x \in inds : TRUE
         IN  BestPriority(ind) + SumBest(inds \ {ind})

\* C23: the similar-studies points are the sum, over the distinct
\* indications the history has under RELEASED, QUALIFIED RESPONDENTS or
\* RESPONDENTS, of the highest priority (40/30/20) seen for the indication;
\* an indication under several categories counts once, and indications
\* under other categories alone count 0.
C23_SimilarStudiesSumOfBestPriorities ==
    Scored => score_details.breakdown[3].points = SumBest(StudyIndications)

\* one indication under two categories, counted once at the higher priority
C23_Witness ==
    /\ Scored
    /\ \E i, j \in StudyRows :
          /\ merged_df[i].INDICATION_NAME = merged_df[j].INDICATION_NAME
          /\ merged_df[i].ACTIVITY_CATEGORY # merged_df[j].ACTIVITY_CATEGORY
    /\ score_details.breakdown[3].points = SumBest(StudyIndications)
    /\ score_details.breakdown[3].points \in {30, 40}

\* the dates of the patient's RANDOMIZATION activities, and the ones that
\* are less than a year old
RandomizationDates ==
    {merged_df[i].ACTIVITY_DATE :
        i \in {j \in History : /\ merged_df[j].ACTIVITY_CATEGORY = "RANDOMIZATION"
                               /\ ~merged_df[j].ACTIVITY_DATE.null}}
Parses(d) == d.ago # <<>>
AtLeastAYear(d) == Parses(d) /\ 4 * d.ago[1] >= 1461

\* C24: the past-qualification points follow the most recent RANDOMIZATION
\* date: 0 without one, 0 when the most recent is less than a year old (an
\* older one never earns 25 beside it), 0 for dates no format parses, and 25
\* when the dates parse and the most recent is at least a year old.
C24_PastQualificationByMostRecent ==
    Scored =>
        LET pts == score_details.breakdown[5].points
        IN  /\ RandomizationDates = {} => pts = 0
            /\ (\E d \in RandomizationDates : Parses(d) /\ ~AtLeastAYear(d)) => pts = 0
            /\ (\A d \in RandomizationDates : ~Parses(d)) => pts = 0
            /\ (RandomizationDates # {} /\ \A d \in RandomizationDates : AtLeastAYear(d))
                  => pts = 25

\* the same when the column's order is the order of the dates (a date
\* column, or texts of year-month-day)
ChronologicalColumn ==
    \A d, e \in RandomizationDates :
        (Parses(d) /\ Parses(e) /\ d.lex < e.lex) => d.ago[1] >= e.ago[1]
C24_PastQualificationInDateOrder ==
    (Scored /\ ChronologicalColumn) =>
        LET pts == score_details.breakdown[5].points
        IN  /\ RandomizationDates = {} => pts = 0
            /\ (\E d \in RandomizationDates : Parses(d) /\ ~AtLeastAYear(d)) => pts = 0
            /\ (\A d \in RandomizationDates : ~Parses(d)) => pts = 0
            /\ (RandomizationDates # {} /\ \A d \in RandomizationDates : AtLeastAYear(d))
                  => pts = 25

\* ----------------------------------------------------- the request runs
\* the rows of a small table: both sexes, two indications, two base scores
QueryRows ==
    {Row(pid, d[1], AgeMin, d[2], bs) :
        pid \in PatientIds, d \in {<<"F", A>>, <<"M", A>>, <<"F", AB>>},
        bs \in BaseScores}

\* rows whose indication has parentheses or is null
ParenRows ==
    {Row(pid, "F", AgeMin, ind, 1) : pid \in PatientIds, ind \in {AParenB, Null}}

\* what the activity table can hold for one patient
HistoryChoices(pid) ==
    {<<>>,
     <<Activity(pid, "RELEASED", SomeDate, A, PatientZip)>>,
     <<Activity(pid, "RANDOMIZATION", SomeDate, A, NullZip)>>}

\* a table of n distinct patients who all match, with distinct base scores
\* and three positive values of the recency points
MaxCrowd == 51
CrowdRow(i) ==
    [Row(i, "F", AgeMin, A, i) EXCEPT !.recency_points = 10 + 10 * (i % 3)]
Crowd(n) == {CrowdRow(i) : i \in 1..n}

QueryTexts ==
    {<<>>,
     <<SexWord("Female")>>,
     <<Label("Target:"), Term(AB)>>,
     <<Label("Target:"), Term(<<"b">>)>>,
     <<Label("Target:"), SexWord("Male")>>,
     <<Label("Target:"), Term(<<"z">>)>>,
     <<Label("EXCLUSION:"), Term(A)>>,
     <<Label("EXCLUSION:"), Term(AParenB)>>}

\* the JSON bodies: each key may be absent, query and top_k may be null
QueryBodies ==
    {q @@ z @@ k :
        q \in Entry("query", Opt(QueryTexts)),
        z \in Entry("site_zip_codes", {<<"z1">>}),
        k \in Entry("top_k", {None, Some(0), Some(1), Some(-1)})}
ZipBodies == {b \in QueryBodies : "query" \notin DOMAIN b}
Requests ==
    {[endpoint |-> "/query", body |-> b] : b \in QueryBodies}
    \cup {[endpoint |-> "/zip-query", body |-> b] : b \in ZipBodies}

\* the requests sent to a large table: an empty query text or a sex word, no
\* site codes
CrowdRequests ==
    {r \in Requests :
        /\ r.endpoint = "/query"
        /\ "site_zip_codes" \notin DOMAIN r.body
        /\ "query" \in DOMAIN r.body
        /\ r.body.query \in {Some(<<>>), Some(<<SexWord("Female")>>)}}

InitQuery ==
    /\ \/ /\ scored_df \in SetsUpTo(QueryRows, MaxRows)
          /\ \E h1 \in HistoryChoices(1), h2 \in HistoryChoices(2) : merged_df = h1 \o h2
          /\ loaded = TRUE /\ faults = {}
       \/ /\ scored_df \in {Crowd(n) : n \in (MaxCrowd - 2)..MaxCrowd}
          /\ merged_df = <<>>
          /\ loaded = TRUE /\ faults \in {{}, {1}, {MaxCrowd - 2}}
          /\ request \in CrowdRequests
       \/ /\ scored_df \in SetsUpTo(QueryRows, MaxRows)
          /\ merged_df = <<>>
          /\ loaded = TRUE /\ faults = {1}
       \/ /\ scored_df \in SetsUpTo(ParenRows, MaxRows)
          /\ merged_df = <<>>
          /\ loaded = TRUE /\ faults = {}
       \/ /\ scored_df = {} /\ merged_df = <<>>
          /\ loaded = FALSE /\ faults = {}
    /\ geo = PlainGeo
    /\ request \in Requests
    /\ response = NoResponse
    /\ all_matching_patients = <<>> /\ candidates_to_score = <<>>
    /\ CachesEmpty /\ BatchIdle
    /\ filters = <<>> /\ top_k = None /\ filtered = NotCalled
    /\ patient_zip = "" /\ site_zip_codes = <<>> /\ distance = NoDistance
    /\ patient = PlainRow /\ score_details = NoScore

\* the effects of one execution on the state
Executed(run, sites) ==
    /\ response' = run.response
    /\ all_matching_patients' = run.matching
    /\ candidates_to_score' = run.candidates
    /\ _cached_merged_df' =
          IF run.scored # <<>> /\ _cached_merged_df = None
          THEN Some(merged_df) ELSE _cached_merged_df
    /\ LET c == CachesAfterBatch([detect |-> detect_cache, gd |-> _geo_distance_cache],
                                 geo, run.scored, sites)
       IN  detect_cache' = c.detect /\ _geo_distance_cache' = c.gd
    /\ UNCHANGED <<filterVars, distVars, scoreVars, request, loaded, faults, batchVars, lookups, resolutions, loadVars>>

\* the site codes of the request body
SitesOf(body) ==
    IF "site_zip_codes" \in DOMAIN body THEN body.site_zip_codes ELSE <<>>

\* POST /query
PostQueryCall ==
    /\ response.status = 0
    /\ request.endpoint = "/query"
    /\ \E run \in PostQuery(scored_df, merged_df, geo, loaded, faults, request.body) :
          Executed(run, SitesOf(request.body))

\* POST /zip-query
ZipQueryCall ==
    /\ response.status = 0
    /\ request.endpoint = "/zip-query"
    /\ \E run \in query_by_zip_only(scored_df, merged_df, geo, loaded, faults,
                                    request.body) :
          Executed(run, SitesOf(request.body))

NextQuery == PostQueryCall \/ ZipQueryCall
SpecQuery == InitQuery /\ [][NextQuery]_vars

\* --------------------------------------------------- requests: properties
Responded == response.status # 0
Answered == response.status = 200
Results == response.patients
TotalOf(i) == Results[i].score_details.total_business_score

\* C3: in a non-empty result list the first result has match percentage
\* 100 and, unless every returned total score is the same, the last has 0;
\* when all the returned totals are equal every result has 100.  Percentages
\* are held in hundredths.
C3_TopIsHundredBottomIsZero ==
    (Answered /\ Results # <<>>) =>
        /\ Results[1].match_score_percent = 10000
        /\ IF \A i \in DOMAIN Results : TotalOf(i) = TotalOf(1)
           THEN \A i \in DOMAIN Results : Results[i].match_score_percent = 10000
           ELSE Results[Len(Results)].match_score_percent = 0

\* a response with three different positive totals
C3_Witness ==
    /\ Answered /\ Len(Results) >= 3
    /\ \E i \in DOMAIN Results :
          TotalOf(1) > TotalOf(i) /\ TotalOf(i) > TotalOf(Len(Results))
    /\ TotalOf(Len(Results)) > 0

\* C9: a request built by /zip-query (no query text, site codes only) is
\* answered with a ranked response for every patient, not with an error
C9_ZipQueryMatchesEveryone ==
    (Responded /\ request.endpoint = "/zip-query") =>
        /\ Answered
        /\ response.total_matching_patients =
               Cardinality({r.PATIENT_ID : r \in scored_df})

\* C10: a request without a result-size limit is answered with all the
\* scored matches, the returned count not being cut to a default limit
C10_AbsentLimitReturnsAll ==
    (Answered /\ "top_k" \notin DOMAIN request.body) =>
        response.returned_patients = Min2(response.total_matching_patients, 5000)

\* a valid POST /query request and what parse_query makes of its text
ValidQuery == request.endpoint = "/query" /\ QueryRequest(request.body).valid
ParsedFilters ==
    {p.filters : p \in {o \in parse_query(scored_df, loaded, request.body.query) :
                           ~o.raised}}

\* the query has a Target term and the term resolves to no canonical value
LookupMiss ==
    /\ loaded /\ ValidQuery
    /\ \A f \in ParsedFilters : "indication" \in DOMAIN f /\ f.indication = <<>>

\* C11: a query whose Target term resolves to zero canonical values gets a
\* normal response with an empty patient list, total_matching_patients = 0
\* and returned_patients = 0, together with an explanatory message.
C11_LookupMissIsEmptyResponseWithMessage ==
    (Responded /\ LookupMiss) =>
        /\ Answered
        /\ response.patients = <<>>
        /\ response.total_matching_patients = 0
        /\ response.returned_patients = 0
        /\ "message" \in DOMAIN response

\* C14: while the datasets are not loaded every /query request, whatever its
\* query text, is answered with an error status and no patients.
C14_UnloadedQueryIsRejected ==
    (Responded /\ ~loaded /\ request.endpoint = "/query") =>
        /\ response.status >= 400
        /\ response.patients = <<>>
        /\ response.returned_patients = 0

\* a well-formed request with an empty query text, refused before loading
C14_Witness ==
    /\ Responded /\ ~loaded /\ ValidQuery
    /\ request.body.query = Some(<<>>)
    /\ response.status = 500

\* a candidate that was promoted to scoring and whose scoring raises
FaultyPromoted(cands) ==
    \E i \in DOMAIN cands : cands[i].row.PATIENT_ID \in faults

\* C15: when scoring raises for a promoted candidate the request ends in
\* HTTP 500 raised by the handler, without any patient in the response, and
\* the two shared datasets are what they were before the request.
C15_ScoringFailureIsServiceError ==
    [][FaultyPromoted(candidates_to_score') =>
          /\ response'.status = 500
          /\ response'.patients = <<>>
          /\ response'.returned_patients = 0
          /\ scored_df' = scored_df
          /\ merged_df' = merged_df]_vars

\* a refused request in which a candidate had been scored before the one
\* whose scoring raised
C15_Witness ==
    /\ response.status = 500
    /\ FaultyPromoted(candidates_to_score)
    /\ \E i \in DOMAIN candidates_to_score :
          /\ candidates_to_score[i].row.PATIENT_ID \notin faults
          /\ candidates_to_score[i]._new_score # None

\* the limit of the validated request, and the scored candidates that are
\* not in the response
GivenTopK == QueryRequest(request.body).top_k
ReturnedIds == {Results[i].patient_id : i \in DOMAIN Results}
NotReturned ==
    {i \in DOMAIN candidates_to_score :
        candidates_to_score[i].row.PATIENT_ID \notin ReturnedIds}

\* C17: the patients of a response are in non-increasing order of their
\* re-computed total score; with a limit top_k >= 1 there are at most top_k
\* of them and none has a lower total than a scored candidate left out.
C17_ResponseIsRankedByTotalScore ==
    Answered =>
        /\ \A i, j \in DOMAIN Results : i < j => TotalOf(i) >= TotalOf(j)
        /\ (ValidQuery /\ GivenTopK # None /\ GivenTopK[1] >= 1) =>
              /\ Len(Results) <= GivenTopK[1]
              /\ \A i \in DOMAIN Results : \A j \in NotReturned :
                    TotalOf(i) >= candidates_to_score[j]._new_score[1]

\* a response of one patient who was behind the candidate left out before
\* the scores were re-computed
C17_Witness ==
    /\ Answered /\ ValidQuery /\ GivenTopK = Some(1) /\ Len(Results) = 1
    /\ \E i, j \in DOMAIN candidates_to_score :
          /\ candidates_to_score[i].row.PATIENT_ID = Results[1].patient_id
          /\ j \in NotReturned
          /\ candidates_to_score[i].row.business_score
                 < candidates_to_score[j].row.business_score
          /\ candidates_to_score[j]._new_score[1] < TotalOf(1)

\* the query text has an EXCLUSION: clause and no Target: clause
HasLabel(q, word) == \E i \in DOMAIN q : q[i].kind = "label" /\ q[i].word = word
ExclusionOnly ==
    /\ loaded /\ ValidQuery
    /\ HasLabel(request.body.query[1], "EXCLUSION:")
    /\ ~HasLabel(request.body.query[1], "Target:")

\* the patients with a row that meets the sex and age constraints of f and
\* whose indication contains no exclusion term of f
Expected(f) ==
    {r.PATIENT_ID : r \in
        {x \in scored_df :
            /\ Has(f, "sex") => x.sex = f["sex"]
            /\ Has(f, "age_min") => x.age >= f["age_min"]
            /\ ~ContainsSomeTerm(x.indication, f["exclude"])}}

\* C20: for a query with an EXCLUSION: clause and no Target: clause the
\* filter set has the exclusion filter and no inclusion filter, and the
\* candidate list holds every patient (within the sex and age constraints)
\* but those whose indication contains a resolved exclusion term.
C20_ExclusionOnlyKeepsAllOthers ==
    (Answered /\ ExclusionOnly) =>
        \E f \in ParsedFilters :
            /\ Has(f, "exclude") /\ ~Has(f, "indication")
            /\ {r.PATIENT_ID : r \in Range(all_matching_patients)} = Expected(f)

\* the part about the filter set alone
C20_OnlyExclusionPopulated ==
    ExclusionOnly =>
        \A f \in ParsedFilters : Has(f, "exclude") /\ ~Has(f, "indication")

\* the cap on the promoted candidates: 5000 without a limit in the request,
\* min(top_k * 50, 10000) with one
PromotionCap ==
    IF "top_k" \notin DOMAIN request.body THEN 5000
    ELSE Min2(GivenTopK[1] * 50, 10000)
PromotedIds == {candidates_to_score[i].row.PATIENT_ID : i \in DOMAIN candidates_to_score}
NotPromoted ==
    {i \in DOMAIN all_matching_patients :
        all_matching_patients[i].PATIENT_ID \notin PromotedIds}
CapRespected(cap) ==
    /\ Len(candidates_to_score) <= Max2(cap, 0)
    /\ \A i \in NotPromoted : \A j \in DOMAIN candidates_to_score :
          all_matching_patients[i].business_score
              <= candidates_to_score[j].row.business_score
    /\ Answered => response.total_matching_patients = Len(all_matching_patients)
    /\ \E f \in ParsedFilters :
          Len(all_matching_patients) =
              Cardinality({r.PATIENT_ID : r \in ApplyFilters(scored_df, f)})

\* C26: query_patients promotes at most C candidates to scoring, C = 5000
\* without a limit and min(top_k * 50, 10000) with one; no match left out has
\* a higher business_score than a promoted one; total_matching_patients
\* counts every deduplicated match.
C26_PromotionIsCapped ==
    (Responded /\ ValidQuery /\ all_matching_patients # <<>>) =>
        CapRespected(PromotionCap)

\* the same for the limits that are not negative
C26_PromotionIsCappedFromZero ==
    (Responded /\ ValidQuery /\ all_matching_patients # <<>> /\ GivenTopK[1] >= 0) =>
        CapRespected(PromotionCap)

\* ------------------------------------------------------- the batch runs
\* compute_score_batch(patients, site_zip_codes, max_concurrent) step by step:
\* gather starts one task per patient; a task waits for a permit of the
\* Semaphore, runs compute_score_with_breakdown_async, and gives the permit
\* back when the call returns or raises.  Which waiting task gets a free
\* permit is left open.
MaxTasks == 4
MaxConcurrent == 2

\* a Semaphore that never refuses
SemaphoreNeverLocked(value) == FALSE

\* asyncio.Semaphore.locked(): no permit is left
SemaphoreLocked(value) == value = 0

\* a permit kept by a call that raised
ReleaseUnlessRaised(value, raised) == IF raised THEN value ELSE value + 1

\* async with semaphore: __aexit__ releases the permit, whether the body
\* returned or raised
Release(value, raised) == value + 1

\* the tasks that have finished (order: the rank at which a task finished)
Done(ts) == {i \in DOMAIN ts : ts[i].pc = "done"}

\* the results in the order in which the tasks finished
ResultsInCompletionOrder(ts) ==
    [k \in DOMAIN ts |-> ts[CHOOSE i \in DOMAIN ts : ts[i].order = k].result[1]]

\* asyncio.gather: the results in the order of the awaitables passed in
GatherResults(ts) == [i \in DOMAIN ts |-> ts[i].result[1]]

InitBatch ==
    /\ \E n \in 0..MaxTasks :
          \E ids \in [1..n -> PatientIds] :
              tasks = [i \in 1..n |-> [patient |-> ids[i], pc |-> "waiting",
                                       result |-> None, order |-> 0]]
    /\ max_concurrent \in 1..MaxConcurrent
    /\ semaphore = max_concurrent
    /\ faults \in SUBSET PatientIds
    /\ batch_result = None
    /\ lookups = <<>>
    /\ resolutions = <<>>
    /\ LoadIdle
    /\ request = NoRequest /\ response = NoResponse /\ loaded = TRUE
    /\ all_matching_patients = <<>> /\ candidates_to_score = <<>>
    /\ FilterIdle /\ DistIdle /\ ScoreIdle /\ CachesEmpty

\* async with semaphore: task i takes a permit
Acquire(i) ==
    /\ tasks[i].pc = "waiting"
    /\ ~SemaphoreLocked(semaphore)
    /\ semaphore' = semaphore - 1
    /\ tasks' = [tasks EXCEPT ![i].pc = "running"]
    /\ UNCHANGED <<max_concurrent, batch_result, lookups, resolutions, loadVars, filterVars, distVars,
                   scoreVars, queryVars, cacheVars>>

\* the scoring call of task i returns or raises; the permit is given back
Finish(i) ==
    /\ tasks[i].pc = "running"
    /\ semaphore' = Release(semaphore, tasks[i].patient \in faults)
    /\ tasks' = [tasks EXCEPT ![i].pc = "done",
                              ![i].result = Some([patient |-> tasks[i].patient,
                                                  raised |-> tasks[i].patient \in faults]),
                              ![i].order = Cardinality(Done(tasks)) + 1]
    /\ UNCHANGED <<max_concurrent, batch_result, lookups, resolutions, loadVars, filterVars, distVars,
                   scoreVars, queryVars, cacheVars>>

\* gather(*tasks, return_exceptions=True) returns when every task is done
BatchReturns ==
    /\ batch_result = None
    /\ \A i \in DOMAIN tasks : tasks[i].pc = "done"
    /\ batch_result' = Some(GatherResults(tasks))
    /\ UNCHANGED <<tasks, semaphore, max_concurrent, lookups, resolutions, loadVars, filterVars, distVars,
                   scoreVars, queryVars, cacheVars>>

NextBatch ==
    \/ \E i \in DOMAIN tasks : Acquire(i)
    \/ \E i \in DOMAIN tasks : Finish(i)
    \/ BatchReturns

SpecBatch == InitBatch /\ [][NextBatch]_vars

\* the event loop runs every task that can run: a free permit is taken by a
\* waiting task, a scoring call that was started terminates, and gather
\* returns once every task is done
FairBatch ==
    /\ WF_vars(\E i \in DOMAIN tasks : Acquire(i))
    /\ WF_vars(\E i \in DOMAIN tasks : Finish(i))
    /\ WF_vars(BatchReturns)
SpecBatchFair == SpecBatch /\ FairBatch

\* ------------------------------------------------------ batch: properties
InFlight == {i \in DOMAIN tasks : tasks[i].pc = "running"}

\* C12: in every state of compute_score_batch the number of scoring tasks in
\* flight is at most max_concurrent.
C12_InFlightAtMostMaxConcurrent ==
    Cardinality(InFlight) <= max_concurrent

\* more tasks than permits, every permit taken and a task waiting
C12_Witness ==
    /\ Len(tasks) > max_concurrent
    /\ Cardinality(InFlight) = max_concurrent
    /\ \E i \in DOMAIN tasks : tasks[i].pc = "waiting"

\* C27: whatever the order in which the scoring tasks finish, the list
\* compute_score_batch returns has one entry per input patient, in input
\* order: entry i is the outcome of scoring patient i.
C27_ResultsInInputOrder ==
    batch_result # None =>
        /\ Len(batch_result[1]) = Len(tasks)
        /\ \A i \in DOMAIN tasks :
              /\ batch_result[1][i].patient = tasks[i].patient
              /\ batch_result[1][i].raised = (tasks[i].patient \in faults)

\* a returned batch in which a later patient finished before an earlier,
\* different one
C27_Witness ==
    /\ batch_result # None
    /\ \E i, j \in DOMAIN tasks :
          /\ i < j /\ tasks[i].order > tasks[j].order
          /\ tasks[i].patient # tasks[j].patient
          /\ batch_result[1][i].raised # batch_result[1][j].raised

\* the batch has returned, every task has run and every permit is back
BatchComplete ==
    /\ batch_result # None
    /\ \A i \in DOMAIN tasks : tasks[i].pc = "done"
    /\ semaphore = max_concurrent

\* C30: when each scoring call terminates, compute_score_batch completes for
\* any number of patients: every task gets a permit and runs, every permit
\* is released whether the call returned or raised, and when the batch has
\* returned no permit is held.
C30_BatchEventuallyCompletes ==
    /\ <>BatchComplete
    /\ [](batch_result # None => BatchComplete)

\* a returned batch of more patients than permits, one of which raised
C30_Witness ==
    /\ BatchComplete
    /\ Len(tasks) > max_concurrent
    /\ \E i \in DOMAIN tasks : batch_result[1][i].raised
    /\ \E i \in DOMAIN tasks : ~batch_result[1][i].raised

\* ------------------------------------------------------ the fan-out runs
\* calculate_closest_distance(patient_zip, site_zip_codes) step by step: one
\* lookup task per site code, each returning on its own, and the gather that
\* waits for all of them.

\* a gather that returns as soon as one lookup has returned
GatherAnyDone(ls) == \E i \in DOMAIN ls : ls[i].pc = "done"

\* asyncio.gather(*tasks, return_exceptions=True): every lookup has returned
GatherDone(ls) == \A i \in DOMAIN ls : ls[i].pc = "done"

InitFanout ==
    /\ geo \in GeoTables
    /\ patient_zip \in {PatientZip, ""}
    /\ site_zip_codes \in SeqsUpTo(ZipCodes, MaxSites)
    /\ distance = NoDistance
    /\ lookups = <<>>
    /\ resolutions = <<>>
    /\ LoadIdle
    /\ tasks = <<>> /\ semaphore = 0 /\ max_concurrent = 0 /\ batch_result = None
    /\ FilterIdle /\ ScoreIdle /\ QueryIdle /\ CachesEmpty

\* lines 104-113: the early return, or one task per site code
StartLookups ==
    /\ distance.state = "idle"
    /\ IF patient_zip = "" \/ site_zip_codes = <<>>
       THEN /\ distance' = [state |-> "closest", value |-> DEFAULT_DISTANCE]
            /\ lookups' = lookups
       ELSE /\ distance' = [state |-> "gathering", value |-> 0]
            /\ lookups' = [i \in DOMAIN site_zip_codes |->
                              [site |-> site_zip_codes[i], pc |-> "pending", value |-> 0]]
    /\ UNCHANGED <<geo, patient_zip, site_zip_codes, filterVars, scoreVars, queryVars,
                   cacheVars, batchVars, resolutions, loadVars>>

\* the lookup of site i returns
LookupReturns(i) ==
    /\ distance.state = "gathering"
    /\ lookups[i].pc = "pending"
    /\ lookups' = [lookups EXCEPT
                      ![i].pc = "done",
                      ![i].value = _calculate_single_distance(geo, patient_zip,
                                                              lookups[i].site)]
    /\ LET c == CachesAfterSingle([detect |-> detect_cache, gd |-> _geo_distance_cache],
                                  geo, patient_zip, lookups[i].site)
       IN  detect_cache' = c.detect /\ _geo_distance_cache' = c.gd
    /\ UNCHANGED <<geo, patient_zip, site_zip_codes, distance, filterVars, scoreVars,
                   queryVars, _cached_merged_df, batchVars, resolutions, loadVars>>

\* lines 115-121: the minimum of the results
GatherReturns ==
    /\ distance.state = "gathering"
    /\ GatherDone(lookups)
    /\ distance' = [state |-> "closest",
                    value |-> SetMin({lookups[i].value : i \in DOMAIN lookups})]
    /\ UNCHANGED <<geo, patient_zip, site_zip_codes, lookups, resolutions, loadVars, filterVars, scoreVars,
                   queryVars, cacheVars, batchVars>>

NextFanout ==
    \/ StartLookups
    \/ \E i \in DOMAIN lookups : LookupReturns(i)
    \/ GatherReturns

SpecFanout == InitFanout /\ [][NextFanout]_vars

\* ---------------------------------------------------- fan-out: properties
\* the lookup of the pair fails: a code does not resolve, or the arithmetic
\* of the fallback raises
LookupFails(a, b) ==
    /\ a # b
    /\ \/ ~(Resolves(a) /\ Resolves(b))
       \/ SpecDistance(a, b) = <<>>

\* C13: a failure of one lookup neither stops its siblings nor fails the
\* computation: when calculate_closest_distance returns, every lookup has
\* run to completion, a failed lookup has contributed "unknown", and the
\* result is the minimum of the contributions.
C13_FailedLookupIsIsolated ==
    (distance.state = "closest" /\ lookups # <<>>) =>
        /\ \A i \in DOMAIN lookups :
              /\ lookups[i].pc = "done"
              /\ LookupFails(patient_zip, lookups[i].site)
                    => lookups[i].value = DEFAULT_DISTANCE
        /\ distance.value = SetMin({lookups[i].value : i \in DOMAIN lookups})

\* a returned call with a failed lookup and a sibling that gave a distance
C13_Witness ==
    /\ distance.state = "closest"
    /\ \E i, j \in DOMAIN lookups :
          /\ LookupFails(patient_zip, lookups[i].site)
          /\ ~LookupFails(patient_zip, lookups[j].site)
          /\ lookups[j].value < DEFAULT_DISTANCE
          /\ distance.value = lookups[j].value

\* --------------------------------------------------- the resolution runs
\* fuzzy_match_filter on a table whose indication column holds spellings of
\* one value that differ in case or in a trailing blank, called on a term
\* and then on a value it returned.
UpperA == <<"A">>
ASpace == <<"a", " ">>
B == <<"b">>
ABC == <<"a", "b", "c">>
ABCD == <<"a", "b", "c", "d">>
Spellings == {Null, A, UpperA, ASpace, AB, B, ABC}
VocabularyRows == {Row(pid, "F", AgeMin, ind, 1) : pid \in PatientIds, ind \in Spellings}
Terms == {A, UpperA, ASpace, AB, B, ABCD, <<"z">>}
MaxResolutions == 2

InitResolve ==
    /\ scored_df \in SetsUpTo(VocabularyRows, MaxRows)
    /\ filters = <<>> /\ top_k = None /\ filtered = NotCalled
    /\ resolutions = <<>>
    /\ LoadIdle
    /\ lookups = <<>>
    /\ tasks = <<>> /\ semaphore = 0 /\ max_concurrent = 0 /\ batch_result = None
    /\ DistIdle /\ ScoreIdle /\ QueryIdle /\ CachesEmpty

\* fuzzy_match_filter(term, "indication")
Resolve(term) ==
    /\ resolutions = <<>>
    /\ \E m \in fuzzy_match_filter(scored_df, term) :
          resolutions' = <<[term |-> term, matches |-> m]>>
    /\ UNCHANGED <<filterVars, distVars, scoreVars, queryVars, cacheVars, batchVars,
                   lookups, loadVars>>

\* fuzzy_match_filter on a value the previous call returned
ResolveOutput ==
    /\ resolutions # <<>> /\ Len(resolutions) < MaxResolutions
    /\ LET last == resolutions[Len(resolutions)]
       IN  \E i \in DOMAIN last.matches :
              \E m \in fuzzy_match_filter(scored_df, last.matches[i]) :
                 resolutions' = Append(resolutions,
                                       [term |-> last.matches[i], matches |-> m])
    /\ UNCHANGED <<filterVars, distVars, scoreVars, queryVars, cacheVars, batchVars,
                   lookups, loadVars>>

NextResolve ==
    \/ \E term \in Terms : Resolve(term)
    \/ ResolveOutput

SpecResolve == InitResolve /\ [][NextResolve]_vars

\* ------------------------------------------------- resolution: properties
\* the canonical values of the table, and those equal to the term once both
\* are lower-cased and trimmed
Canonical == {r.indication : r \in scored_df} \ {Null}
EqualTo(term) == {v \in Canonical : Strip(Lower(v)) = Strip(Lower(term))}

\* C19: resolving a term that is equal, case and surrounding blanks aside,
\* to a canonical value returns that one canonical value alone (the term
\* itself when the term is canonical), and resolving the output again
\* returns the same single value.
C19_ExactResolutionIsIdempotent ==
    \A i \in DOMAIN resolutions :
        LET r == resolutions[i]
        IN  EqualTo(r.term) # {} =>
                /\ Len(r.matches) = 1
                /\ r.matches[1] \in EqualTo(r.term)
                /\ r.term \in Canonical => r.matches = <<r.term>>
                /\ (i + 1) \in DOMAIN resolutions =>
                       resolutions[i + 1].matches = r.matches

\* what does hold: one value, equal to the term case and blanks aside, and
\* nothing from the fuzzy rules
C19_ExactRuleReturnsOneEqualValue ==
    \A i \in DOMAIN resolutions :
        LET r == resolutions[i]
        IN  EqualTo(r.term) # {} =>
                /\ Len(r.matches) = 1
                /\ r.matches[1] \in EqualTo(r.term)

\* the canonical values that pass the similarity threshold of the second
\* rule for the term, and those that pass a fallback measure of the third
CloseTo(term) ==
    {v \in Canonical :
        RatioAtLeast(Strip(Lower(term)), Strip(Lower(v)), FUZZY_MATCH_THRESHOLD)}
FallbackFor(term) ==
    {v \in Canonical :
        \/ PartialRatioAtLeast(Strip(Lower(term)), Strip(Lower(v)), FUZZY_MATCH_FALLBACK)
        \/ RatioAtLeast(Strip(Lower(term)), Strip(Lower(v)), FUZZY_MATCH_FALLBACK)}

\* C25: the three rules apply in strict precedence: an exact match returns
\* that single value; otherwise all the values at or over the threshold 85
\* are returned and nothing else; the fallback measures (>= 60) decide only
\* when no value reaches the threshold.
C25_RulesInStrictPrecedence ==
    \A i \in DOMAIN resolutions :
        LET r == resolutions[i]
        IN  /\ \A j, k \in DOMAIN r.matches : r.matches[j] = r.matches[k] => j = k
            /\ IF EqualTo(r.term) # {}
               THEN Len(r.matches) = 1 /\ r.matches[1] \in EqualTo(r.term)
               ELSE IF CloseTo(r.term) # {}
               THEN Range(r.matches) = CloseTo(r.term)
               ELSE Range(r.matches) = FallbackFor(r.term)

\* a term with no exact match, a value over the threshold that is returned
\* and a value that passes the fallback measure alone and is not
C25_Witness ==
    \E i \in DOMAIN resolutions :
        LET r == resolutions[i]
        IN  /\ EqualTo(r.term) = {}
            /\ Range(r.matches) = CloseTo(r.term)
            /\ CloseTo(r.term) # {}
            /\ FallbackFor(r.term) \ CloseTo(r.term) # {}

\* -------------------------------------------------------- the loader runs
\* DataLoader.load_datasets called by several coroutines: a caller takes the
\* lock, runs _load_data when the loader holds no pair (the reads of the two
\* files succeed, or one of them raises), returns the pair and gives the
\* lock back.
MaxCallers == 4

\* a lock that lets every caller in
LockAlwaysFree(lock) == TRUE

\* asyncio.Lock: free when nobody holds it
LockFree(lock) == lock = 0

InitLoad ==
    /\ \E n \in 1..MaxCallers :
          callers = [c \in 1..n |-> [pc |-> "start", run |-> 0, result |-> 0]]
    /\ _loading_lock = 0 /\ load_runs = 0 /\ stored = 0
    /\ loaded = FALSE
    /\ request = NoRequest /\ response = NoResponse /\ faults = {}
    /\ all_matching_patients = <<>> /\ candidates_to_score = <<>>
    /\ tasks = <<>> /\ semaphore = 0 /\ max_concurrent = 0 /\ batch_result = None
    /\ lookups = <<>> /\ resolutions = <<>>
    /\ FilterIdle /\ DistIdle /\ ScoreIdle /\ CachesEmpty

\* lines 18-20: async with self._loading_lock, and the test of the pair
AcquireLock(c) ==
    /\ callers[c].pc = "start"
    /\ LockFree(_loading_lock)
    /\ _loading_lock' = c
    /\ IF stored = 0
       THEN /\ load_runs' = load_runs + 1
            /\ callers' = [callers EXCEPT ![c].pc = "loading", ![c].run = load_runs + 1]
       ELSE /\ load_runs' = load_runs
            /\ callers' = [callers EXCEPT ![c].pc = "holding"]
    /\ UNCHANGED <<stored, loaded, request, response, faults, all_matching_patients,
                   candidates_to_score, filterVars, distVars, scoreVars, cacheVars,
                   batchVars, lookups, resolutions>>

\* lines 23-34: both reads return and the pair is assigned
LoadSucceeds(c) ==
    /\ callers[c].pc = "loading"
    /\ stored' = callers[c].run
    /\ loaded' = TRUE
    /\ callers' = [callers EXCEPT ![c].pc = "holding"]
    /\ UNCHANGED <<_loading_lock, load_runs, request, response, faults,
                   all_matching_patients, candidates_to_score, filterVars, distVars,
                   scoreVars, cacheVars, batchVars, lookups, resolutions>>

\* lines 23-31: a read raises; the exception leaves the async with block,
\* which gives the lock back, and nothing is assigned
LoadFails(c) ==
    /\ callers[c].pc = "loading"
    /\ callers' = [callers EXCEPT ![c].pc = "raised"]
    /\ _loading_lock' = IF _loading_lock = c THEN 0 ELSE _loading_lock
    /\ UNCHANGED <<load_runs, stored, loaded, request, response, faults,
                   all_matching_patients, candidates_to_score, filterVars, distVars,
                   scoreVars, cacheVars, batchVars, lookups, resolutions>>

\* line 21: return self._scored_df, self._merged_df
ReturnPair(c) ==
    /\ callers[c].pc = "holding"
    /\ callers' = [callers EXCEPT ![c].pc = "returned", ![c].result = stored]
    /\ _loading_lock' = IF _loading_lock = c THEN 0 ELSE _loading_lock
    /\ UNCHANGED <<load_runs, stored, loaded, request, response, faults,
                   all_matching_patients, candidates_to_score, filterVars, distVars,
                   scoreVars, cacheVars, batchVars, lookups, resolutions>>

NextLoad ==
    \/ \E c \in DOMAIN callers : AcquireLock(c)
    \/ \E c \in DOMAIN callers : LoadSucceeds(c)
    \/ \E c \in DOMAIN callers : LoadFails(c)
    \/ \E c \in DOMAIN callers : ReturnPair(c)

SpecLoad == InitLoad /\ [][NextLoad]_vars

\* ------------------------------------------------------ loader: properties
\* the callers inside the async with block, and the callers whose
\* execution of _load_data assigned the pair
Inside == {c \in DOMAIN callers : callers[c].pc \in {"loading", "holding"}}
Loaded(c) == callers[c].run # 0 /\ callers[c].pc \in {"holding", "returned"}

\* C28 as stated: under any interleaving of concurrent load_datasets calls
\* _load_data is executed at most once.
C28_LoadRunsAtMostOnce ==
    load_runs <= 1

\* C28: at most one caller is inside the lock, so at most one execution of
\* _load_data is in progress; at most one execution completes, and none
\* starts after it; an execution that raises leaves the loader without a
\* pair, and the next caller loads again; every caller that returns, returns
\* the one pair that was loaded.
C28_OneSuccessfulLoad ==
    /\ Cardinality(Inside) <= 1
    /\ Cardinality({c \in DOMAIN callers : Loaded(c)}) <= 1
    /\ \A c \in DOMAIN callers :
          Loaded(c) => /\ stored = callers[c].run
                       /\ \A d \in DOMAIN callers : callers[d].run <= callers[c].run
    /\ \A c \in DOMAIN callers :
          callers[c].pc = "returned" => callers[c].result = stored /\ stored # 0
    /\ loaded <=> stored # 0

\* a caller whose load raised, a caller that loaded, and a caller that
\* returned the pair without loading
C28_Witness ==
    \E a, b, c \in DOMAIN callers :
        /\ callers[a].pc = "raised"
        /\ Loaded(b) /\ callers[b].pc = "returned"
        /\ callers[c].pc = "returned" /\ callers[c].run = 0
        /\ callers[c].result = callers[b].result

====
